---------------------------- MODULE Spec2Model ----------------------------
(***************************************************************************)
(* Model of the Markdown converters of the repository:                     *)
(*   Python/blogger_converter.py  (feed converter: Blogger Atom export)    *)
(*   Python/tumblr_export_html_to_markdown_converter.py (page converter)   *)
(*                                                                         *)
(* A Python str is modelled as a sequence of one-character strings, so     *)
(* that every regular-expression substitution of the source is computed    *)
(* character by character.  Two characters have a name instead of a glyph: *)
(* "NBSP" is U+00A0, "BQ" is the backquote and "\n" is the line feed.      *)
(***************************************************************************)
EXTENDS Integers, Sequences, FiniteSets, TLC

(***************************************************************************)
(* Bounds of the model.                                                    *)
(***************************************************************************)
MaxEntries == 2

\* The most tokens (text pieces, opening and closing tags) of an argument of
\* the html_to_markdown call.
MaxTokens == 6

\* The most characters of a title given to clean_filename (the title of the
\* sanitization scenario apart).
MaxTitleLen == 4

\* The most pieces (characters and character references) of a plain text
\* given to html_to_markdown.
MaxPieces == 3

\* The most items of a list given to html_to_markdown.
MaxItems == 2

(***************************************************************************)
(* Text primitives.                                                        *)
(***************************************************************************)
\* Python's None, where a str is expected.
None == <<"None">>

\* str.isspace() / the class \s of a str pattern: Unicode white space.
IsSpace(c) == c \in {" ", "\n", "\t", "\r", "NBSP"}

\* s[i:].startswith(p), 1-based.
StartsAt(s, i, p) ==
  /\ i >= 1
  /\ i + Len(p) - 1 <= Len(s)
  /\ \A k \in 1..Len(p) : s[i + k - 1] = p[k]

\* The least and the greatest of a set of positions, 0 when the set is empty
\* (positions start at 1).
Least(ks) == IF ks = {} THEN 0 ELSE CHOOSE k \in ks : \A j \in ks : k <= j

Greatest(ks) == IF ks = {} THEN 0 ELSE CHOOSE k \in ks : \A j \in ks : j <= k

\* s.find(p, i): the least j >= i where p occurs, 0 when there is none.
Find(s, i, p) == Least({k \in i..(Len(s) - Len(p) + 1) : StartsAt(s, k, p)})

\* The slice s[i..j] (empty when j < i).
Slice(s, i, j) == IF j < i THEN <<>> ELSE SubSeq(s, i, j)

\* A left-to-right scan of s[i..] by a regular expression, ms[k] being the
\* match attempted at position k (last = 0 when it fails): the text before the
\* leftmost match is kept, the match gives its repl, and the scan resumes
\* behind the end of the match.  Without a match the rest of s is kept.
RECURSIVE Rebuild(_, _, _)
RebuildAt(s, i, ms, first) ==
  IF first = 0 THEN Slice(s, i, Len(s))
  ELSE Slice(s, i, first - 1) \o ms[first].repl \o Rebuild(s, ms[first].last + 1, ms)

Rebuild(s, i, ms) == RebuildAt(s, i, ms, Least({k \in i..Len(s) : ms[k].last # 0}))

\* A failed match, and a match ending at index `last` replaced by `repl`.
NoMatch == [last |-> 0, repl |-> <<>>]

Match(e, r) == [last |-> e, repl |-> r]

\* str.strip(): white space removed at both ends.
RECURSIVE LStrip(_)
LStrip(s) ==
  IF s # <<>> /\ IsSpace(Head(s)) THEN LStrip(Tail(s)) ELSE s

RECURSIVE RStrip(_)
RStrip(s) ==
  IF s # <<>> /\ IsSpace(s[Len(s)]) THEN RStrip(SubSeq(s, 1, Len(s) - 1)) ELSE s

Strip(s) == RStrip(LStrip(s))

\* str.replace(old, new) for a one-character `old`.
ReplaceChar(s, old, new) ==
  Rebuild(s, 1, [k \in 1..Len(s) |-> IF s[k] = old THEN Match(k, new) ELSE NoMatch])

\* sep.join(ss)
RECURSIVE Join(_, _)
Join(sep, ss) ==
  IF ss = <<>> THEN <<>>
  ELSE IF Len(ss) = 1 THEN ss[1]
  ELSE ss[1] \o sep \o Join(sep, Tail(ss))

\* Whether p occurs in s.
Contains(s, p) == Find(s, 1, p) # 0

(***************************************************************************)
(* html.unescape (blogger_converter.py line 34), for the named character   *)
(* references amp, lt, gt, quot and nbsp.  The library's pattern is        *)
(*   &(#[0-9]+;?|#[xX][0-9a-fA-F]+;?|[^\t\n\f <&#;]{1,32};?)               *)
(* and a name that is no entity is replaced by its longest prefix that is  *)
(* one (the legacy forms without the semicolon).  Numeric references are   *)
(* left as they are: "#" starts no entity of the table below.              *)
(***************************************************************************)
\* html.entities.html5[n], <<>> when n is no key.
Html5(n) ==
  CASE n \in {<<"a","m","p">>, <<"a","m","p",";">>} -> <<"&">>
    [] n \in {<<"l","t">>, <<"l","t",";">>} -> <<"<">>
    [] n \in {<<"g","t">>, <<"g","t",";">>} -> <<">">>
    [] n \in {<<"q","u","o","t">>, <<"q","u","o","t",";">>} -> <<"\"">>
    [] n \in {<<"n","b","s","p">>, <<"n","b","s","p",";">>} -> <<"NBSP">>
    [] OTHER -> <<>>

IsNameChar(c) == c \notin {"\t", "\n", "\f", " ", "<", "&", "#", ";"}

\* The end of the run [^\t\n\f <&#;]{0,32} that starts at i (i - 1 when empty).
RECURSIVE NameEnd(_, _, _)
NameEnd(s, i, n) ==
  IF i <= Len(s) /\ n < 32 /\ IsNameChar(s[i]) THEN NameEnd(s, i + 1, n + 1) ELSE i - 1

\* replace_charref's loop: for x in range(len(g) - 1, 1, -1).
RECURSIVE CharrefPrefix(_, _)
CharrefPrefix(g, x) ==
  IF x <= 1 THEN <<"&">> \o g
  ELSE IF Html5(SubSeq(g, 1, x)) # <<>> THEN Html5(SubSeq(g, 1, x)) \o Slice(g, x + 1, Len(g))
  ELSE CharrefPrefix(g, x - 1)

replace_charref(g) ==
  IF Html5(g) # <<>> THEN Html5(g) ELSE CharrefPrefix(g, Len(g) - 1)

MatchCharref(s, i) ==
  IF s[i] # "&" THEN NoMatch
  ELSE
    LET e == NameEnd(s, i + 1, 0)
        last == IF e + 1 <= Len(s) /\ s[e + 1] = ";" THEN e + 1 ELSE e
    IN IF e < i + 1 THEN NoMatch ELSE Match(last, replace_charref(SubSeq(s, i + 1, last)))

(***************************************************************************)
(* The patterns of html_to_markdown.  Each Match... operator is            *)
(* re.match(pattern, s, pos = i) together with the replacement text: it    *)
(* gives Match(last, repl) when the pattern matches s[i..last] and NoMatch *)
(* otherwise.  Greedy and lazy quantifiers are resolved as the             *)
(* backtracking matcher of `re` resolves them.                             *)
(***************************************************************************)
\* The first ">" at or after i (0 when there is none): where [^>]*> ends.
FindGt(s, i) == Find(s, i, <<">">>)

\* open[^>]*>(.*?)close with DOTALL: the tag ends at the first ">", the group
\* at the first `close` after it.
TagPair(s, i, open, close) ==
  IF ~StartsAt(s, i, open) THEN [last |-> 0, inner |-> <<>>]
  ELSE
    LET g == FindGt(s, i + Len(open))
        c == IF g = 0 THEN 0 ELSE Find(s, g + 1, close)
    IN IF c = 0 THEN [last |-> 0, inner |-> <<>>]
       ELSE [last |-> c + Len(close) - 1, inner |-> Slice(s, g + 1, c - 1)]

\* line 37: <img[^>]+src="([^"]+)"[^>]*(?:alt="([^"]*)")?[^>]*>
\* k is where src=" starts; the greedy [^>]+ tries the rightmost k first.
\* After the closing quote q the greedy [^>]* runs up to the first ">" g, where
\* the optional alt group is tried (and cannot match), so the match ends at g.
ImgSrcAt(s, k) ==
  LET q == Find(s, k + 5, <<"\"">>)
      g == IF q = 0 THEN 0 ELSE FindGt(s, q + 1)
      altq == IF g # 0 /\ StartsAt(s, g, <<"a","l","t","=","\"">>)
              THEN Find(s, g + 5, <<"\"">>) ELSE 0
      alt == IF altq # 0 THEN Slice(s, g + 5, altq - 1) ELSE <<>>
  IN IF StartsAt(s, k, <<"s","r","c","=","\"">>) /\ q >= k + 6 /\ g # 0
     THEN Match(g, <<"!","[">> \o alt \o <<"]","(">> \o SubSeq(s, k + 5, q - 1) \o <<")">>)
     ELSE NoMatch

\* The match of the tag at i with src=" at the rightmost place up to k.
ImgAt(s, i, k) == ImgSrcAt(s, Greatest({j \in (i + 5)..k : ImgSrcAt(s, j).last # 0}))

MatchImg(s, i) ==
  IF ~StartsAt(s, i, <<"<","i","m","g">>) THEN NoMatch
  ELSE LET g0 == FindGt(s, i + 4)
       IN ImgAt(s, i, IF g0 = 0 THEN Len(s) ELSE g0 - 1)

\* line 41: <a[^>]+href="([^"]+)"[^>]*>(.*?)</a> with DOTALL -> [\2](\1)
LinkHrefAt(s, k) ==
  LET q == Find(s, k + 6, <<"\"">>)
      g == IF q = 0 THEN 0 ELSE FindGt(s, q + 1)
      c == IF g = 0 THEN 0 ELSE Find(s, g + 1, <<"<","/","a",">">>)
  IN IF StartsAt(s, k, <<"h","r","e","f","=","\"">>) /\ q >= k + 7 /\ c # 0
     THEN Match(c + 3, <<"[">> \o Slice(s, g + 1, c - 1) \o <<"]","(">>
                       \o SubSeq(s, k + 6, q - 1) \o <<")">>)
     ELSE NoMatch

\* The match of the tag at i with href=" at the rightmost place up to k.
LinkAt(s, i, k) == LinkHrefAt(s, Greatest({j \in (i + 3)..k : LinkHrefAt(s, j).last # 0}))

MatchLink(s, i) ==
  IF ~StartsAt(s, i, <<"<","a">>) THEN NoMatch
  ELSE LET g0 == FindGt(s, i + 2)
       IN LinkAt(s, i, IF g0 = 0 THEN Len(s) ELSE g0 - 1)

\* line 45: <h([1-6])[^>]*>(.*?)</h[1-6]> with DOTALL -> '#' * n + ' ' + \2
HeadingDigits == {"1", "2", "3", "4", "5", "6"}

HeadingLevel(c) ==
  CASE c = "1" -> 1 [] c = "2" -> 2 [] c = "3" -> 3
    [] c = "4" -> 4 [] c = "5" -> 5 [] c = "6" -> 6

\* The first </h[1-6]> at or after i (0 when there is none).
FindHeadingClose(s, i) ==
  Least({k \in i..(Len(s) - 4) :
           StartsAt(s, k, <<"<","/","h">>) /\ s[k + 3] \in HeadingDigits /\ s[k + 4] = ">"})

MatchHeading(s, i) ==
  IF ~(StartsAt(s, i, <<"<","h">>) /\ i + 2 <= Len(s) /\ s[i + 2] \in HeadingDigits)
  THEN NoMatch
  ELSE
    LET g == FindGt(s, i + 3)
        c == IF g = 0 THEN 0 ELSE FindHeadingClose(s, g + 1)
    IN IF c = 0 THEN NoMatch
       ELSE Match(c + 4, [k \in 1..HeadingLevel(s[i + 2]) |-> "#"] \o <<" ">>
                         \o Slice(s, g + 1, c - 1))

\* line 48: <p[^>]*>(.*?)</p> with DOTALL -> \1\n\n
MatchP(s, i) ==
  LET m == TagPair(s, i, <<"<","p">>, <<"<","/","p",">">>)
  IN IF m.last = 0 THEN NoMatch ELSE Match(m.last, m.inner \o <<"\n","\n">>)

\* line 51: <br\s*/?> -> \n
RECURSIVE SkipSpace(_, _)
SkipSpace(s, i) == IF i <= Len(s) /\ IsSpace(s[i]) THEN SkipSpace(s, i + 1) ELSE i

MatchBr(s, i) ==
  IF ~StartsAt(s, i, <<"<","b","r">>) THEN NoMatch
  ELSE
    LET j == SkipSpace(s, i + 3)
        k == IF j <= Len(s) /\ s[j] = "/" THEN j + 1 ELSE j
    IN IF k <= Len(s) /\ s[k] = ">" THEN Match(k, <<"\n">>) ELSE NoMatch

\* lines 54-57: <tag[^>]*>(.*?)</tag> with DOTALL -> mark \1 mark
MatchWrap(s, i, open, close, mark) ==
  LET m == TagPair(s, i, open, close)
  IN IF m.last = 0 THEN NoMatch ELSE Match(m.last, mark \o m.inner \o mark)

MatchStrong(s, i) ==
  MatchWrap(s, i, <<"<","s","t","r","o","n","g">>, <<"<","/","s","t","r","o","n","g",">">>,
            <<"*","*">>)

MatchB(s, i) == MatchWrap(s, i, <<"<","b">>, <<"<","/","b",">">>, <<"*","*">>)

MatchEm(s, i) == MatchWrap(s, i, <<"<","e","m">>, <<"<","/","e","m",">">>, <<"*">>)

MatchI(s, i) == MatchWrap(s, i, <<"<","i">>, <<"<","/","i",">">>, <<"*">>)

\* line 71 (and line 86): <[^>]+> -> ''
MatchTag(s, i) ==
  IF s[i] # "<" THEN NoMatch
  ELSE LET g == FindGt(s, i + 1)
       IN IF g >= i + 2 THEN Match(g, <<>>) ELSE NoMatch

\* re.sub(r'<[^>]+>', '', s)
StripTagsFrom(s, i) == Rebuild(s, i, [k \in 1..Len(s) |-> MatchTag(s, k)])

StripTags(s) == StripTagsFrom(s, 1)

\* str(n) for a natural number n.
DigitChar(d) ==
  CASE d = 0 -> "0" [] d = 1 -> "1" [] d = 2 -> "2" [] d = 3 -> "3" [] d = 4 -> "4"
    [] d = 5 -> "5" [] d = 6 -> "6" [] d = 7 -> "7" [] d = 8 -> "8" [] d = 9 -> "9"

RECURSIVE IntToStr(_)
IntToStr(n) ==
  IF n < 10 THEN <<DigitChar(n)>> ELSE IntToStr(n \div 10) \o <<DigitChar(n % 10)>>

\* line 82: re.findall(r'<li[^>]*>(.*?)</li>', list_content, flags=re.DOTALL)
\* The groups of the leftmost matches from i on, ms[k] being the match
\* attempted at position k.
RECURSIVE Inners(_, _)
InnersAt(ms, first) ==
  IF first = 0 THEN <<>> ELSE <<ms[first].inner>> \o Inners(ms, ms[first].last + 1)

Inners(ms, i) == InnersAt(ms, Least({k \in i..Len(ms) : ms[k].last # 0}))

FindItems(s, i) ==
  Inners([k \in 1..Len(s) |-> TagPair(s, k, <<"<","l","i">>, <<"<","/","l","i",">">>)], i)

\* convert_list numbering the items of an ordered list from 0.
convert_list_from_zero(list_content, list_type) ==
  LET items == FindItems(list_content, 1)
      markdown_items ==
        [k \in 1..Len(items) |->
           LET item == Strip(StripTags(items[k]))
           IN IF list_type = "ul" THEN <<"-"," ">> \o item
              ELSE IntToStr(k - 1) \o <<"."," ">> \o item]
  IN <<"\n">> \o Join(<<"\n">>, markdown_items) \o <<"\n">>
\* lines 80-92
convert_list(list_content, list_type) ==
  LET items == FindItems(list_content, 1)
      markdown_items ==
        [k \in 1..Len(items) |->
           LET item == Strip(StripTags(items[k]))
           IN IF list_type = "ul" THEN <<"-"," ">> \o item
              ELSE IntToStr(k) \o <<"."," ">> \o item]
  IN <<"\n">> \o Join(<<"\n">>, markdown_items) \o <<"\n">>

\* lines 60-61: <ul[^>]*>(.*?)</ul> and <ol[^>]*>(.*?)</ol> with DOTALL
MatchUl(s, i) ==
  LET m == TagPair(s, i, <<"<","u","l">>, <<"<","/","u","l",">">>)
  IN IF m.last = 0 THEN NoMatch ELSE Match(m.last, convert_list(m.inner, "ul"))

MatchOl(s, i) ==
  LET m == TagPair(s, i, <<"<","o","l">>, <<"<","/","o","l",">">>)
  IN IF m.last = 0 THEN NoMatch ELSE Match(m.last, convert_list(m.inner, "ol"))

\* line 64: <blockquote[^>]*>(.*?)</blockquote> with DOTALL
\*          -> '> ' + \1.strip().replace('\n', '\n> ')
MatchBlockquote(s, i) ==
  LET m == TagPair(s, i, <<"<","b","l","o","c","k","q","u","o","t","e">>,
                   <<"<","/","b","l","o","c","k","q","u","o","t","e",">">>)
  IN IF m.last = 0 THEN NoMatch
     ELSE Match(m.last, <<">"," ">> \o ReplaceChar(Strip(m.inner), "\n", <<"\n",">"," ">>))

\* line 67: <pre[^>]*><code[^>]*>(.*?)</code></pre> with DOTALL -> fence \n \1 \n fence
MatchPreCode(s, i) ==
  IF ~StartsAt(s, i, <<"<","p","r","e">>) THEN NoMatch
  ELSE
    LET g1 == FindGt(s, i + 4)
        g2 == IF g1 # 0 /\ StartsAt(s, g1 + 1, <<"<","c","o","d","e">>)
              THEN FindGt(s, g1 + 6) ELSE 0
        c == IF g2 = 0 THEN 0
             ELSE Find(s, g2 + 1, <<"<","/","c","o","d","e",">","<","/","p","r","e",">">>)
    IN IF c = 0 THEN NoMatch
       ELSE Match(c + 12, <<"BQ","BQ","BQ","\n">> \o Slice(s, g2 + 1, c - 1)
                          \o <<"\n","BQ","BQ","BQ">>)

\* line 68: <code[^>]*>(.*?)</code> with DOTALL -> backquote \1 backquote
MatchCode(s, i) ==
  MatchWrap(s, i, <<"<","c","o","d","e">>, <<"<","/","c","o","d","e",">">>, <<"BQ">>)

\* line 74: \n\s*\n\s*\n -> \n\n.  Both \s* are greedy, so the match runs from
\* the line feed at i to the last line feed of the white-space run that starts
\* at i, and needs three line feeds in that run.
RECURSIVE LastNewline(_, _, _)
LastNewline(s, i, e) ==
  IF e < i THEN 0 ELSE IF s[e] = "\n" THEN e ELSE LastNewline(s, i, e - 1)

CountNewlines(s, i, e) == Cardinality({k \in i..e : s[k] = "\n"})

MatchBlankLines(s, i) ==
  IF s[i] # "\n" THEN NoMatch
  ELSE
    LET e == SkipSpace(s, i) - 1
        n == LastNewline(s, i, e)
    IN IF CountNewlines(s, i, e) >= 3 THEN Match(n, <<"\n","\n">>) ELSE NoMatch

\* line 75: the literal text &nbsp; -> ' '
MatchNbspText(s, i) ==
  IF StartsAt(s, i, <<"&","n","b","s","p",";">>) THEN Match(i + 5, <<" ">>) ELSE NoMatch

\* re.match of the pattern of one rule at position i.
MatchAt(rule, s, i) ==
  CASE rule = "charref" -> MatchCharref(s, i)
    [] rule = "img" -> MatchImg(s, i)
    [] rule = "a" -> MatchLink(s, i)
    [] rule = "h" -> MatchHeading(s, i)
    [] rule = "p" -> MatchP(s, i)
    [] rule = "br" -> MatchBr(s, i)
    [] rule = "strong" -> MatchStrong(s, i)
    [] rule = "b" -> MatchB(s, i)
    [] rule = "em" -> MatchEm(s, i)
    [] rule = "i" -> MatchI(s, i)
    [] rule = "ul" -> MatchUl(s, i)
    [] rule = "ol" -> MatchOl(s, i)
    [] rule = "blockquote" -> MatchBlockquote(s, i)
    [] rule = "precode" -> MatchPreCode(s, i)
    [] rule = "code" -> MatchCode(s, i)
    [] rule = "tag" -> MatchTag(s, i)
    [] rule = "blank" -> MatchBlankLines(s, i)
    [] rule = "nbsp" -> MatchNbspText(s, i)

\* re.sub(pattern, repl, s): the leftmost matches, left to right, not
\* overlapping.  No pattern of the module matches the empty string.
ReSubFrom(rule, s, i) == Rebuild(s, i, [k \in 1..Len(s) |-> MatchAt(rule, s, k)])

re_sub(rule, s) == ReSubFrom(rule, s, 1)

\* The rule sequence with the removal of the remaining tags right after the
\* decoding of the character references.
RulesTagStripFirst ==
  <<"charref", "tag", "img", "a", "h", "p", "br", "strong", "b", "em", "i", "ul", "ol",
    "blockquote", "precode", "code", "blank", "nbsp">>

\* The rule sequence without the collapsing of blank lines.
RulesWithoutBlank ==
  <<"charref", "img", "a", "h", "p", "br", "strong", "b", "em", "i", "ul", "ol",
    "blockquote", "precode", "code", "tag", "nbsp">>

\* The rule sequence without the final removal of the remaining tags.
RulesWithoutTagStrip ==
  <<"charref", "img", "a", "h", "p", "br", "strong", "b", "em", "i", "ul", "ol",
    "blockquote", "precode", "code", "blank", "nbsp">>

\* The rules of html_to_markdown in the order of lines 34-75.
Rules ==
  <<"charref", "img", "a", "h", "p", "br", "strong", "b", "em", "i", "ul", "ol",
    "blockquote", "precode", "code", "tag", "blank", "nbsp">>

\* The substitutions in order; no pattern matches in the empty text.
RECURSIVE ApplyRules(_, _)
ApplyRules(rules, s) ==
  IF rules = <<>> \/ s = <<>> THEN s ELSE ApplyRules(Tail(rules), re_sub(Head(rules), s))

\* lines 28-77
html_to_markdown(html_content) ==
  IF html_content = <<>> \/ html_content = None THEN <<>>
  ELSE Strip(ApplyRules(Rules, html_content))

(***************************************************************************)
(* clean_filename and format_date (blogger_converter.py).                  *)
(***************************************************************************)
Digits == {"0", "1", "2", "3", "4", "5", "6", "7", "8", "9"}

UpperCase ==
  <<"A","B","C","D","E","F","G","H","I","J","K","L","M","N","O","P","Q","R","S","T",
    "U","V","W","X","Y","Z","É">>

LowerCase ==
  <<"a","b","c","d","e","f","g","h","i","j","k","l","m","n","o","p","q","r","s","t",
    "u","v","w","x","y","z","é">>

\* The class \w of a str pattern: Unicode letters and digits, and "_".
IsWord(c) ==
  \/ c \in Digits
  \/ c = "_"
  \/ \E k \in 1..Len(UpperCase) : c = UpperCase[k] \/ c = LowerCase[k]

\* str.lower(), one character.
LowerChar(c) ==
  IF \E k \in 1..Len(UpperCase) : c = UpperCase[k]
  THEN LowerCase[CHOOSE k \in 1..Len(UpperCase) : c = UpperCase[k]]
  ELSE c

Lower(s) == [k \in 1..Len(s) |-> LowerChar(s[k])]

\* line 23: re.sub(r'[^\w\s-]', '', title)
RECURSIVE DropSpecial(_)
DropSpecial(s) ==
  IF s = <<>> THEN <<>>
  ELSE IF IsWord(Head(s)) \/ IsSpace(Head(s)) \/ Head(s) = "-"
       THEN <<Head(s)>> \o DropSpecial(Tail(s))
  ELSE DropSpecial(Tail(s))

\* line 24: re.sub(r'[-\s]+', '-', title)
IsDashOrSpace(c) == c = "-" \/ IsSpace(c)

RECURSIVE SkipDashSpace(_, _)
SkipDashSpace(s, i) ==
  IF i <= Len(s) /\ IsDashOrSpace(s[i]) THEN SkipDashSpace(s, i + 1) ELSE i

RECURSIVE CollapseDashFrom(_, _)
CollapseDashFrom(s, i) ==
  IF i > Len(s) THEN <<>>
  ELSE IF IsDashOrSpace(s[i]) THEN <<"-">> \o CollapseDashFrom(s, SkipDashSpace(s, i))
  ELSE <<s[i]>> \o CollapseDashFrom(s, i + 1)

CollapseDash(s) == CollapseDashFrom(s, 1)

\* str.strip('-')
RECURSIVE StripDash(_)
StripDash(s) ==
  IF s # <<>> /\ Head(s) = "-" THEN StripDash(Tail(s))
  ELSE IF s # <<>> /\ s[Len(s)] = "-" THEN StripDash(SubSeq(s, 1, Len(s) - 1))
  ELSE s

\* clean_filename without the strip('-') of line 25.
clean_filename_keeps_hyphens(title) == Lower(CollapseDash(DropSpecial(StripTags(title))))
\* clean_filename without the final lower().
clean_filename_keeps_case(title) == StripDash(CollapseDash(DropSpecial(StripTags(title))))

\* lines 18-25, for a str title (re.sub raises TypeError on None: see FeedEntry)
clean_filename(title) == Lower(StripDash(CollapseDash(DropSpecial(StripTags(title)))))

\* The number written by the n decimal digits at s[i..i+n-1].
DigitValue(c) ==
  CASE c = "0" -> 0 [] c = "1" -> 1 [] c = "2" -> 2 [] c = "3" -> 3 [] c = "4" -> 4
    [] c = "5" -> 5 [] c = "6" -> 6 [] c = "7" -> 7 [] c = "8" -> 8 [] c = "9" -> 9

IsDigits(s, i, n) == i >= 1 /\ i + n - 1 <= Len(s) /\ \A k \in i..(i + n - 1) : s[k] \in Digits

RECURSIVE Number(_, _, _)
Number(s, i, n) ==
  IF n = 0 THEN 0 ELSE Number(s, i, n - 1) * 10 + DigitValue(s[i + n - 1])

IsLeap(y) == (y % 4 = 0 /\ y % 100 # 0) \/ y % 400 = 0

DaysIn(y, m) ==
  IF m = 2 THEN (IF IsLeap(y) THEN 29 ELSE 28)
  ELSE IF m \in {4, 6, 9, 11} THEN 30 ELSE 31

\* HH:MM[:SS[.ffffff]] at s[i..j] for a UTC offset, HH[:MM[:SS[.fff[fff]]]] for a
\* time of day; every field in range.
IsClock(s, i, j, offset) ==
  LET n == j - i + 1
  IN /\ n \in (IF offset THEN {5, 8, 15} ELSE {2, 5, 8, 12, 15})
     /\ IsDigits(s, i, 2) /\ Number(s, i, 2) < 24
     /\ n >= 5 => (s[i + 2] = ":" /\ IsDigits(s, i + 3, 2) /\ Number(s, i + 3, 2) < 60)
     /\ n >= 8 => (s[i + 5] = ":" /\ IsDigits(s, i + 6, 2) /\ Number(s, i + 6, 2) < 60)
     /\ n >= 12 => (s[i + 8] = "." /\ IsDigits(s, i + 9, n - 9))

\* The first "+" or "-" at or after i (0 when there is none).
RECURSIVE FindSign(_, _)
FindSign(s, i) ==
  IF i > Len(s) THEN 0 ELSE IF s[i] \in {"+", "-"} THEN i ELSE FindSign(s, i + 1)

\* Whether datetime.fromisoformat accepts s: YYYY-MM-DD, then nothing or any one
\* separator character and HH[:MM[:SS[.fff[fff]]]][+HH:MM[:SS[.ffffff]]].
IsIsoFormat(s) ==
  /\ Len(s) >= 10
  /\ IsDigits(s, 1, 4) /\ s[5] = "-" /\ IsDigits(s, 6, 2) /\ s[8] = "-" /\ IsDigits(s, 9, 2)
  /\ Number(s, 1, 4) >= 1
  /\ Number(s, 6, 2) \in 1..12
  /\ Number(s, 9, 2) \in 1..DaysIn(Number(s, 1, 4), Number(s, 6, 2))
  /\ Len(s) # 11
  /\ Len(s) > 11 =>
       LET z == FindSign(s, 12)
       IN IF z = 0 THEN IsClock(s, 12, Len(s), FALSE)
          ELSE IsClock(s, 12, z - 1, FALSE) /\ IsClock(s, z + 1, Len(s), TRUE)

\* format_date with `return None` in the except branch.
format_date_or_none(date_string) ==
  IF date_string = None THEN None
  ELSE
    LET iso == ReplaceChar(date_string, "Z", <<"+","0","0",":","0","0">>)
    IN IF IsIsoFormat(iso) THEN SubSeq(iso, 1, 10) ELSE None

Pad2(n) == IF n < 10 THEN <<"0">> \o IntToStr(n) ELSE IntToStr(n)

\* lines 95-102.  None.replace raises AttributeError, which the bare except
\* turns into `return date_string`, that is None.  strftime('%Y') of glibc does
\* not pad the year.
format_date(date_string) ==
  IF date_string = None THEN None
  ELSE
    LET iso == ReplaceChar(date_string, "Z", <<"+","0","0",":","0","0">>)
    IN IF IsIsoFormat(iso)
       THEN IntToStr(Number(iso, 1, 4)) \o <<"-">> \o Pad2(Number(iso, 6, 2))
            \o <<"-">> \o Pad2(Number(iso, 9, 2))
       ELSE date_string

(***************************************************************************)
(* extract_date_from_html and convert_image_paths                          *)
(* (tumblr_export_html_to_markdown_converter.py).                          *)
(***************************************************************************)
\* The end of the maximal run of characters of a class that starts at i
\* (i - 1 when the run is empty).
RECURSIVE WordEnd(_, _)
WordEnd(s, i) == IF i <= Len(s) /\ IsWord(s[i]) THEN WordEnd(s, i + 1) ELSE i - 1

RECURSIVE DigitsEnd(_, _)
DigitsEnd(s, i) == IF i <= Len(s) /\ s[i] \in Digits THEN DigitsEnd(s, i + 1) ELSE i - 1

\* One of the two-letter alternatives at s[i..i+1], ignoring case.
IsOneOf(s, i, alts) == i + 1 <= Len(s) /\ Lower(SubSeq(s, i, i + 1)) \in alts

\* line 20, matched at i:
\*   (\w+)\s+(\d+)(?:st|nd|rd|th),?\s+(\d{4})\s+(\d+):(\d+)(?:am|pm)
\* Every quantified class is disjoint from what follows it, so each greedy run
\* is maximal.  The result is 0 (no match) or the groups of the match.
DateMatchAt(s, i) ==
  LET w == WordEnd(s, i)
      a == SkipSpace(s, w + 1)
      d == DigitsEnd(s, a)
      c == IF d + 3 <= Len(s) /\ s[d + 3] = "," THEN d + 4 ELSE d + 3
      b == SkipSpace(s, c)
      y == DigitsEnd(s, b)
      e == SkipSpace(s, y + 1)
      h == DigitsEnd(s, e)
      m == DigitsEnd(s, h + 2)
  IN IF /\ w >= i /\ a > w + 1 /\ d >= a
        /\ IsOneOf(s, d + 1, {<<"s","t">>, <<"n","d">>, <<"r","d">>, <<"t","h">>})
        /\ b > c /\ y = b + 3 /\ e > y + 1 /\ h >= e
        /\ h + 1 <= Len(s) /\ s[h + 1] = ":" /\ m >= h + 2
        /\ IsOneOf(s, m + 1, {<<"a","m">>, <<"p","m">>})
     THEN [ok |-> TRUE, month_name |-> SubSeq(s, i, w), day |-> SubSeq(s, a, d),
           year |-> SubSeq(s, b, y)]
     ELSE [ok |-> FALSE, month_name |-> <<>>, day |-> <<>>, year |-> <<>>]

\* re.search: the match at the least position (0 when there is none).
DateSearch(s, i) ==
  Least({k \in i..Len(s) : DateMatchAt(s, k).ok})

\* lines 27-31
month_names ==
  <<<<"j","a","n","u","a","r","y">>, <<"f","e","b","r","u","a","r","y">>,
    <<"m","a","r","c","h">>, <<"a","p","r","i","l">>, <<"m","a","y">>,
    <<"j","u","n","e">>, <<"j","u","l","y">>, <<"a","u","g","u","s","t">>,
    <<"s","e","p","t","e","m","b","e","r">>, <<"o","c","t","o","b","e","r">>,
    <<"n","o","v","e","m","b","e","r">>, <<"d","e","c","e","m","b","e","r">>>>

\* extract_date_from_html with a default date in place of None.
extract_date_or_default(html_content) ==
  IF DateSearch(html_content, 1) = 0
  THEN <<"0","0","0","0",".","0","0",".","0","0">>
  ELSE <<"2","0","2","5",".","0","1",".","1","5">>

\* lines 14-37: YYYY.MM.DD, or None
extract_date_from_html(html_content) ==
  LET i == DateSearch(html_content, 1)
  IN IF i = 0 THEN None
     ELSE
       LET g == DateMatchAt(html_content, i)
           name == Lower(g.month_name)
       IN IF \E k \in 1..12 : month_names[k] = name
          THEN g.year \o <<".">> \o Pad2(CHOOSE k \in 1..12 : month_names[k] = name)
               \o <<".">> \o Pad2(Number(g.day, 1, Len(g.day)))
          ELSE None

\* os.path.basename: what follows the last "/".
RECURSIVE Basename(_)
Basename(path) ==
  IF path = <<>> THEN <<>>
  ELSE IF path[Len(path)] = "/" THEN <<>>
  ELSE Basename(SubSeq(path, 1, Len(path) - 1)) \o <<path[Len(path)]>>

EndsWith(s, p) == Len(s) >= Len(p) /\ SubSeq(s, Len(s) - Len(p) + 1, Len(s)) = p

\* line 61
image_extensions ==
  {<<".","j","p","g">>, <<".","j","p","e","g">>, <<".","p","n","g">>, <<".","g","i","f">>,
   <<".","b","m","p">>, <<".","w","e","b","p">>, <<".","s","v","g">>}

MediaDir == <<"t","u","m","b","l","r","m","e","d","i","a","/">>

\* \[([^\]]*)\]\(([^)]+)\) matched at i: the closing bracket is the first "]",
\* the closing parenthesis the first ")" and the path is not empty.
NoBracket == [last |-> 0, text |-> <<>>, path |-> <<>>]

BracketAt(s, i) ==
  LET r == IF i <= Len(s) /\ s[i] = "[" THEN Find(s, i + 1, <<"]">>) ELSE 0
      c == IF r # 0 /\ r + 1 <= Len(s) /\ s[r + 1] = "(" THEN Find(s, r + 2, <<")">>) ELSE 0
  IN IF c >= r + 3 /\ r # 0
     THEN [last |-> c, text |-> Slice(s, i + 1, r - 1), path |-> SubSeq(s, r + 2, c - 1)]
     ELSE NoBracket

\* lines 45-53
replace_markdown_image_path(alt_text, original_path) ==
  <<"!","[">> \o alt_text \o <<"]","(">> \o MediaDir \o Basename(original_path) \o <<")">>

\* replace_image_links comparing the endings without lower().
replace_image_links_case_sensitive(link_text, original_path) ==
  IF \E ext \in image_extensions : EndsWith(original_path, ext)
  THEN <<"!","[">> \o link_text \o <<"]","(">> \o MediaDir \o Basename(original_path) \o <<")">>
  ELSE <<"[">> \o link_text \o <<"]","(">> \o original_path \o <<")">>
\* lines 56-69
replace_image_links(link_text, original_path) ==
  IF \E ext \in image_extensions : EndsWith(Lower(original_path), ext)
  THEN <<"!","[">> \o link_text \o <<"]","(">> \o MediaDir \o Basename(original_path) \o <<")">>
  ELSE <<"[">> \o link_text \o <<"]","(">> \o original_path \o <<")">>

\* line 72: re.sub(r'!\[([^\]]*)\]\(([^)]+)\)', replace_markdown_image_path, s)
ImageRepl(m) ==
  IF m.last = 0 THEN NoMatch ELSE Match(m.last, replace_markdown_image_path(m.text, m.path))

SubImagesFrom(s, i) ==
  Rebuild(s, i, [k \in 1..Len(s) |->
                  ImageRepl(IF s[k] = "!" THEN BracketAt(s, k + 1) ELSE NoBracket)])

\* line 75: re.sub(r'\[([^\]]*)\]\(([^)]+)\)', replace_image_links, s)
LinkRepl(m) ==
  IF m.last = 0 THEN NoMatch ELSE Match(m.last, replace_image_links(m.text, m.path))

SubLinksFrom(s, i) == Rebuild(s, i, [k \in 1..Len(s) |-> LinkRepl(BracketAt(s, k))])

\* lines 39-77
convert_image_paths(markdown_content) ==
  SubLinksFrom(SubImagesFrom(markdown_content, 1), 1)

(***************************************************************************)
(* The inputs of a run.  An element or a text that is missing in the feed  *)
(* is Absent (find() gave None) or None (the element has no text).         *)
(***************************************************************************)
Absent == <<"Absent">>

\* Both converters: the path given on the command line.
InputPath == <<"b","l","o","g">>

HelloTitle == <<"H","e","l","l","o"," ","W","o","r","l","d">>

HelloPublished == <<"2","0","2","4","-","1","2","-","1","8","T","1","9",":","2","6",":","0","0",".","0","0","0","-","0","8",":","0","0">>

HelloContent == <<"<","p",">","H","i"," ","<","b",">","t","h","e","r","e","<","/","b",">","<","/","p",">">>

\* The entry of the end-to-end scenario: a post, not a draft.
BaseEntry ==
  [kind |-> <<"p","o","s","t">>, draft |-> Absent, title |-> HelloTitle,
   published |-> HelloPublished, content |-> HelloContent]

\* kind: the term of the category of scheme ...#kind; draft: the text of
\* app:control/app:draft; title: the text of the atom:title of type text;
\* published: the text of atom:published; content: the text of the
\* atom:content of type html.
EntryValues ==
  [kind : {<<"p","o","s","t">>, <<"s","e","t","t","i","n","g","s">>, Absent},
   draft : {Absent, <<"y","e","s">>, <<"n","o">>},
   title : {HelloTitle, <<"H","e","l","l","o",","," ","W","o","r","l","d","!">>, <<"B","y","e">>, Absent, None},
   published : {HelloPublished, <<"2","0","2","4","-","1","2","-","1","8","T","0","8",":","0","0",":","0","0","Z">>, <<"s","o","o","n">>, <<"1","/","2">>, <<"1",":","2","?">>, Absent, None},
   content : {HelloContent, <<"<","s","t","r","o","n","g",">","B","y","e","<","/","s","t","r","o","n","g",">">>, Absent, None}]

EntryFields == {"kind", "draft", "title", "published", "content"}

\* The entries of the model: the scenario entry with at most one field changed.
EntryPool ==
  {e \in EntryValues : Cardinality({f \in EntryFields : e[f] # BaseEntry[f]}) <= 1}

\* A page export: name is Path.stem, readable whether open(...).read() succeeds,
\* html the file's text and md what html2text's HTML2Text.handle returns for it.
BaseFile ==
  [name |-> <<"p","o","s","t","1">>, readable |-> TRUE, html |-> <<"J","a","n","u","a","r","y"," ","1","5","t","h",","," ","2","0","2","5"," ","7",":","3","7","a","m">>, md |-> <<"h","i">>]

FileNames == {<<"p","o","s","t","1">>, <<"p","o","s","t","2">>, <<"p","o","s","t","3">>}

FileValues ==
  [name : FileNames,
   readable : BOOLEAN,
   html : {<<"J","a","n","u","a","r","y"," ","1","5","t","h",","," ","2","0","2","5"," ","7",":","3","7","a","m">>, <<"<","p",">","x","<","/","p",">">>, <<"F","o","o"," ","1","s","t",","," ","2","0","2","5"," ","1",":","0","0","a","m">>},
   md : {<<"h","i">>, <<"!","[","a","]","(","x","/","y",".","p","n","g",")">>}]

FileFields == {"readable", "html", "md"}

FilePool ==
  {f \in FileValues : Cardinality({x \in FileFields : f[x] # BaseFile[x]}) <= 1}

\* The sequences over S of length at most n.
SeqsUpTo(S, n) == UNION {[1..k -> S] : k \in 0..n}

\* The files of a folder have different names.
DistinctNames(fs) == \A i, j \in 1..Len(fs) : i # j => fs[i].name # fs[j].name

\* Names in the output folder before the run, and what they hold.
OldText == <<"o","l","d">>

HelloFile == <<"2","0","2","4","-","1","2","-","1","8","-","h","e","l","l","o","-","w","o","r","l","d",".","m","d">>

PageFile1 == <<"2","0","2","5",".","0","1",".","1","5"," ","-"," ","p","o","s","t","1",".","m","d">>

(***************************************************************************)
(* The state of a run.                                                     *)
(*   prog     which program runs: "feed" (blogger_converter.py), "page"    *)
(*            (tumblr_export_html_to_markdown_converter.py) or "md" (one   *)
(*            call of html_to_markdown)                                    *)
(*   source   what the input path is: "missing", "unreadable" (exists but  *)
(*            cannot be opened), "malformed" (no well-formed XML) or "ok"  *)
(*   entries, html_files   the records of the input, in iteration order    *)
(*   existing the output folder before the run: file name -> text          *)
(*   blocked  the names in the output folder that open(name, 'w') cannot   *)
(*            open (a folder of that name, a file without write access)    *)
(*   pc, idx  the position in the program and in the loop                  *)
(*   files    the output folder: file name -> text                         *)
(*   stdout, stderr   the lines printed, as [msg, arg]                     *)
(*   exit_code   the exit status, -1 while the program runs                *)
(*   entries_processed   the counter of extract_blog_entries               *)
(*   html_content, markdown   argument and result of the "md" call         *)
(*   argument, result   argument and return value of one call of           *)
(*            clean_filename (prog "fn") or convert_image_paths (prog      *)
(*            "paths")                                                     *)
(***************************************************************************)
VARIABLES prog, source, entries, html_files, existing, blocked, pc, idx, files, stdout,
          stderr, exit_code, entries_processed, html_content, markdown, argument, result

\* The playlist maker (youtube_playlist_maker.py): the lines of the input
\* file, the video ids of the items of the playlist on the server, whether the
\* listing of its items succeeds, and the locals of
\* create_playlist_and_add_songs.  The audiobook organizer
\* (audiobook_organizer.py): the list made at line 83, the directories below
\* the script's directory as paths, the names of the regular files in it, and
\* the counters of main.
VARIABLES lines, playlist, listing, existing_videos, added_count, skipped_count,
          failed_count, folders, dirs, plain_files, moved_count

vars ==
  <<prog, source, entries, html_files, existing, blocked, pc, idx, files, stdout,
    stderr, exit_code, entries_processed, html_content, markdown, argument, result,
    lines, playlist, listing, existing_videos, added_count, skipped_count,
    failed_count, folders, dirs, plain_files, moved_count>>

inputs == <<prog, source, entries, html_files, existing, blocked, html_content, argument>>

\* What the converters do not touch: the state of the playlist maker and of
\* the audiobook organizer, and its value in a run of a converter.
playlist_state == <<lines, playlist, listing, existing_videos, added_count, failed_count>>

organizer_state == <<folders, dirs, plain_files, moved_count>>

tools == <<playlist_state, organizer_state, skipped_count>>

NoPlaylist ==
  /\ lines = <<>> /\ playlist = <<>> /\ listing = "ok"
  /\ existing_videos = {}
  /\ added_count = 0 /\ failed_count = 0

NoOrganizer ==
  /\ folders = <<>> /\ dirs = {} /\ plain_files = {}
  /\ moved_count = 0

InitTools == NoPlaylist /\ NoOrganizer /\ skipped_count = 0

Msg(m, a) == [msg |-> m, arg |-> a]

EmptyDir == [n \in {} |-> <<>>]

\* open(name, 'x'): a file that exists is kept as it is.
WriteFileKeepsExisting(dir, name, text) ==
  [n \in DOMAIN dir \cup {name} |-> IF n \in DOMAIN dir THEN dir[n] ELSE text]

\* open(name, 'a'): the text is added to what the file holds.
WriteFileAppends(dir, name, text) ==
  [n \in DOMAIN dir \cup {name} |->
     IF n # name THEN dir[n] ELSE IF n \in DOMAIN dir THEN dir[n] \o text ELSE text]

\* open(name, 'w') then write(text): the file is created or truncated.
WriteFile(dir, name, text) ==
  [n \in DOMAIN dir \cup {name} |-> IF n = name THEN text ELSE dir[n]]

\* Whether open(name, 'w') raises OSError: the output folder holds no
\* subfolder, so a name with a "/" has no parent folder.
WriteFails(name) == name \in blocked \/ Contains(name, <<"/">>)

\* str(x) inside an f-string.
Fmt(x) == IF x = None THEN <<"N","o","n","e">> ELSE x

\* blogger_converter.py lines 168-173
FeedText(title, published_date, is_draft, markdown_content) ==
  <<"#"," ">> \o Fmt(title) \o <<"\n","\n">>
  \o <<"*","*","D","a","t","e",":","*","*"," ">> \o Fmt(published_date) \o <<"\n">>
  \o (IF is_draft THEN <<"*","*","S","t","a","t","u","s",":","*","*"," ","D","r","a","f","t","\n">> ELSE <<>>)
  \o <<"\n">> \o markdown_content \o <<"\n">>

\* lines 162-164
FeedFilename(title, published_date, is_draft) ==
  (IF is_draft THEN <<"d","r","a","f","t","-">> ELSE <<>>)
  \o Fmt(published_date) \o <<"-">> \o clean_filename(title) \o <<".","m","d">>

\* is_draft not set back to False at line 134: true once an entry up to the
\* current one was a draft.
IsDraftSticky(e) == \E k \in 1..idx : entries[k].draft = <<"y","e","s">>
\* is_draft set whenever the app:draft element is there, whatever its text.
IsDraftAnyText(e) == e.draft # Absent
\* lines 135-140
IsDraft(e) == e.draft = <<"y","e","s">>

\* lines 143-144
TitleOf(e) == IF e.title = Absent THEN <<"U","n","t","i","t","l","e","d">> ELSE e.title

\* The skips without the test of lines 130-131.
FeedSkipsNoSettingsTest(e) ==
  \/ e.published = Absent
  \/ e.content = Absent
\* The skips without the test of line 155.
FeedSkipsNoContentTest(e) ==
  \/ e.kind # Absent /\ Contains(e.kind, <<"s","e","t","t","i","n","g","s">>)
  \/ e.published = Absent

\* lines 130-131, 148, 155: the entry is passed over by a continue.
FeedSkips(e) ==
  \/ e.kind # Absent /\ Contains(e.kind, <<"s","e","t","t","i","n","g","s">>)
  \/ e.published = Absent
  \/ e.content = Absent

\* lines 162-168: clean_filename(None) raises TypeError, open raises OSError.
\* Neither is caught in extract_blog_entries or in main.
FeedRaises(e) ==
  \/ TitleOf(e) = None
  \/ WriteFails(FeedFilename(TitleOf(e), format_date(e.published), IsDraft(e)))

\* tumblr converter line 144
PageFilename(date_str, base_name) == date_str \o <<" ","-"," ">> \o base_name \o <<".","m","d">>

HtmlName(f) == f.name \o <<".","h","t","m","l">>

(***************************************************************************)
(* blogger_converter.py                                                    *)
(***************************************************************************)
\* main, lines 181-196
FeedMain ==
  /\ prog = "feed" /\ pc = "main"
  /\ IF source = "missing"
     THEN /\ stdout' = Append(stdout, Msg("Error: File not found", InputPath))
          /\ pc' = "done"
          /\ exit_code' = 0
     ELSE /\ stdout' = stdout \o <<Msg("Converting", InputPath),
                                   Msg("Output directory", <<>>)>>
          /\ pc' = "extract"
          /\ exit_code' = exit_code
  /\ UNCHANGED <<inputs, tools, idx, files, stderr, entries_processed, markdown, result>>

\* extract_blog_entries, lines 105-125: ET.parse raises ParseError, which is
\* caught, or OSError, which is not.
FeedParse ==
  /\ prog = "feed" /\ pc = "extract"
  /\ CASE source = "malformed" ->
            /\ stdout' = Append(stdout, Msg("Error parsing XML file", InputPath))
            /\ pc' = "done" /\ exit_code' = 0
            /\ UNCHANGED <<stderr, idx, entries_processed>>
       [] source = "unreadable" ->
            /\ stderr' = Append(stderr, Msg("Traceback", <<"O","S","E","r","r","o","r">>))
            /\ pc' = "done" /\ exit_code' = 1
            /\ UNCHANGED <<stdout, idx, entries_processed>>
       [] OTHER ->
            /\ pc' = "loop" /\ idx' = 1 /\ entries_processed' = 0
            /\ UNCHANGED <<stdout, stderr, exit_code>>
  /\ UNCHANGED <<inputs, tools, files, markdown, result>>

\* One iteration of the loop of lines 128-176.
FeedEntry ==
  /\ prog = "feed" /\ pc = "loop" /\ idx <= Len(entries)
  /\ LET entry == entries[idx]
         is_draft == IsDraft(entry)
         title == TitleOf(entry)
         published_date == format_date(entry.published)
         markdown_content ==
           html_to_markdown(IF entry.content = None THEN <<>> ELSE entry.content)
         filename == FeedFilename(title, published_date, is_draft)
     IN IF FeedSkips(entry)
        THEN /\ idx' = idx + 1
             /\ UNCHANGED <<pc, files, stdout, stderr, exit_code, entries_processed>>
        ELSE IF FeedRaises(entry)
        THEN /\ stderr' = Append(stderr, Msg("Traceback",
                                  IF title = None THEN <<"T","y","p","e","E","r","r","o","r">>
                                  ELSE <<"O","S","E","r","r","o","r">>))
             /\ pc' = "done" /\ exit_code' = 1
             /\ UNCHANGED <<idx, files, stdout, entries_processed>>
        ELSE /\ files' = WriteFile(files, filename,
                                   FeedText(title, published_date, is_draft, markdown_content))
             /\ stdout' = Append(stdout, Msg("Created", filename))
             /\ entries_processed' = entries_processed + 1
             /\ idx' = idx + 1
             /\ UNCHANGED <<pc, stderr, exit_code>>
  /\ UNCHANGED <<inputs, tools, markdown, result>>

\* The summary of line 178 printing the number of entries of the feed.
FeedSummaryCountsAll ==
  /\ prog = "feed" /\ pc = "loop" /\ idx > Len(entries)
  /\ stdout' = Append(stdout, Msg("Processed blog entries", IntToStr(Len(entries))))
  /\ pc' = "done" /\ exit_code' = 0
  /\ UNCHANGED <<inputs, tools, idx, files, stderr, entries_processed, markdown, result>>
\* line 178, and the return to the shell
FeedSummary ==
  /\ prog = "feed" /\ pc = "loop" /\ idx > Len(entries)
  /\ stdout' = Append(stdout, Msg("Processed blog entries", IntToStr(entries_processed)))
  /\ pc' = "done" /\ exit_code' = 0
  /\ UNCHANGED <<inputs, tools, idx, files, stderr, entries_processed, markdown, result>>

(***************************************************************************)
(* tumblr_export_html_to_markdown_converter.py                             *)
(***************************************************************************)
\* process_html_folder without the test of line 117.
PageStartNoEmptyTest ==
  /\ prog = "page" /\ pc = "main"
  /\ IF source = "missing"
     THEN /\ stdout' = Append(stdout, Msg("Error: Input folder does not exist", InputPath))
          /\ pc' = "done" /\ exit_code' = 0 /\ idx' = idx
     ELSE /\ stdout' = Append(stdout, Msg("Found HTML files", IntToStr(Len(html_files))))
          /\ pc' = "loop" /\ idx' = 1 /\ exit_code' = exit_code
  /\ UNCHANGED <<inputs, tools, files, stderr, entries_processed, markdown, result>>

\* process_html_folder, lines 101-121
PageStart ==
  /\ prog = "page" /\ pc = "main"
  /\ IF source = "missing"
     THEN /\ stdout' = Append(stdout, Msg("Error: Input folder does not exist", InputPath))
          /\ pc' = "done" /\ exit_code' = 0 /\ idx' = idx
     ELSE IF html_files = <<>>
     THEN /\ stdout' = Append(stdout, Msg("No HTML files found", InputPath))
          /\ pc' = "done" /\ exit_code' = 0 /\ idx' = idx
     ELSE /\ stdout' = Append(stdout, Msg("Found HTML files", IntToStr(Len(html_files))))
          /\ pc' = "loop" /\ idx' = 1 /\ exit_code' = exit_code
  /\ UNCHANGED <<inputs, tools, files, stderr, entries_processed, markdown, result>>

\* One iteration of the loop of lines 123-154.
PageFile ==
  /\ prog = "page" /\ pc = "loop" /\ idx <= Len(html_files)
  /\ LET html_file == html_files[idx]
         date_str == extract_date_from_html(html_file.html)
         markdown_content == convert_image_paths(html_file.md)
         output_filename == PageFilename(date_str, html_file.name)
     IN IF ~html_file.readable
        THEN /\ stdout' = Append(stdout, Msg("Error processing", HtmlName(html_file)))
             /\ files' = files
        ELSE IF date_str = None
        THEN /\ stdout' = Append(stdout, Msg("Warning: Could not extract date",
                                             HtmlName(html_file)))
             /\ files' = files
        ELSE IF WriteFails(output_filename)
        THEN /\ stdout' = Append(stdout, Msg("Error processing", HtmlName(html_file)))
             /\ files' = files
        ELSE /\ files' = WriteFile(files, output_filename, markdown_content)
             /\ stdout' = Append(stdout, Msg("Converted", output_filename))
  /\ idx' = idx + 1
  /\ UNCHANGED <<inputs, tools, pc, stderr, exit_code, entries_processed, markdown, result>>

\* line 156, and the return to the shell
PageDone ==
  /\ prog = "page" /\ pc = "loop" /\ idx > Len(html_files)
  /\ stdout' = Append(stdout, Msg("Conversion complete!", <<>>))
  /\ pc' = "done" /\ exit_code' = 0
  /\ UNCHANGED <<inputs, tools, idx, files, stderr, entries_processed, markdown, result>>

(***************************************************************************)
(* The runs of the two converters.                                         *)
(***************************************************************************)
InitRun ==
  /\ pc = "main" /\ idx = 0
  /\ stdout = <<>> /\ stderr = <<>>
  /\ exit_code = -1
  /\ entries_processed = 0
  /\ html_content = <<>> /\ markdown = <<>>
  /\ argument = <<>> /\ result = <<>>
  /\ InitTools

InitFeed ==
  /\ prog = "feed"
  /\ source \in {"missing", "unreadable", "malformed", "ok"}
  /\ entries \in (IF source = "ok" THEN SeqsUpTo(EntryPool, MaxEntries) ELSE {<<>>})
  /\ html_files = <<>>
  /\ existing \in {EmptyDir, WriteFile(EmptyDir, HelloFile, OldText)}
  /\ files = existing
  /\ blocked \in {{}, {HelloFile}}
  /\ InitRun

InitPage ==
  /\ prog = "page"
  /\ source \in {"missing", "ok"}
  /\ entries = <<>>
  /\ html_files \in (IF source = "ok"
                     THEN {fs \in SeqsUpTo(FilePool, MaxEntries) : DistinctNames(fs)}
                     ELSE {<<>>})
  /\ existing \in {EmptyDir, WriteFile(EmptyDir, PageFile1, OldText)}
  /\ files = existing
  /\ blocked \in {{}, {PageFile1}}
  /\ InitRun

Init == InitFeed \/ InitPage

Next ==
  \/ FeedMain
  \/ FeedParse
  \/ FeedEntry
  \/ FeedSummary
  \/ PageStart
  \/ PageFile
  \/ PageDone

Spec == Init /\ [][Next]_vars

(***************************************************************************)
(* One call of html_to_markdown (blogger_converter.py, lines 28-77) on a   *)
(* document built from p, strong and em elements and plain text.           *)
(***************************************************************************)
Texts == {<<"a">>, <<"\n">>}

Tags == {<<"p">>, <<"s","t","r","o","n","g">>, <<"e","m">>}

Element(tag, inner) == <<"<">> \o tag \o <<">">> \o inner \o <<"<", "/">> \o tag \o <<">">>

\* The well-formed documents of exactly n tokens.
RECURSIVE Documents(_)
Documents(n) ==
  IF n = 0 THEN {<<>>}
  ELSE {t \o d : t \in Texts, d \in Documents(n - 1)}
       \cup (IF n < 2 THEN {}
             ELSE UNION {{Element(tag, d1) \o d2 :
                            tag \in Tags, d1 \in Documents(k), d2 \in Documents(n - 2 - k)} :
                         k \in 0..(n - 2)})

InitMd ==
  /\ prog = "md" /\ source = "ok"
  /\ html_content \in UNION {Documents(n) : n \in 0..MaxTokens}
  /\ markdown = <<>>
  /\ argument = <<>> /\ result = <<>>
  /\ entries = <<>> /\ html_files = <<>>
  /\ existing = EmptyDir /\ files = existing /\ blocked = {}
  /\ pc = "main" /\ idx = 0
  /\ stdout = <<>> /\ stderr = <<>>
  /\ exit_code = -1
  /\ InitTools
  /\ entries_processed = 0

\* markdown = html_to_markdown(html_content)
Convert ==
  /\ prog = "md" /\ pc = "main"
  /\ markdown' = html_to_markdown(html_content)
  /\ pc' = "done"
  /\ UNCHANGED <<inputs, tools, idx, files, stdout, stderr, exit_code, entries_processed, result>>

NextMd == Convert

SpecMd == InitMd /\ [][NextMd]_vars

(***************************************************************************)
(* Single calls of the other functions.  InitCall is the part of the       *)
(* initial state that such a call does not use.                            *)
(***************************************************************************)
InitCall ==
  /\ source = "ok"
  /\ entries = <<>> /\ html_files = <<>>
  /\ existing = EmptyDir /\ files = existing /\ blocked = {}
  /\ pc = "main" /\ idx = 0
  /\ stdout = <<>> /\ stderr = <<>>
  /\ exit_code = -1
  /\ entries_processed = 0
  /\ InitTools

\* Titles: letters of both cases, a digit, the underscore, hyphen and space,
\* a punctuation mark, a letter outside ASCII and the two angle brackets.
TitleChars == {"A", "b", "1", "_", "-", " ", "!", "É", "<", ">"}

CrazyTitle == <<"M","y"," ","\"","C","r","a","z","y","\""," ","T","i","t","l","e","!","!","!">>

InitFn ==
  /\ prog = "fn"
  /\ argument \in SeqsUpTo(TitleChars, MaxTitleLen) \cup {CrazyTitle}
  /\ result = <<>>
  /\ html_content = <<>> /\ markdown = <<>>
  /\ InitCall

\* result = clean_filename(argument)
CallCleanFilename ==
  /\ prog = "fn" /\ pc = "main"
  /\ result' = clean_filename(argument)
  /\ pc' = "done"
  /\ UNCHANGED <<inputs, tools, idx, files, stdout, stderr, exit_code, entries_processed, markdown>>

NextFn == CallCleanFilename

SpecFn == InitFn /\ [][NextFn]_vars

(***************************************************************************)
(* What the claims speak about.                                            *)
(***************************************************************************)
\* The records the loop has finished with (the record at idx is in progress,
\* or is the one whose exception ended the run).
Visited == IF idx = 0 THEN 0 ELSE idx - 1

Records == IF prog = "feed" THEN entries ELSE html_files

\* The arguments of the lines of one kind, in the order printed.
RECURSIVE LinesOf(_, _)
LinesOf(out, kind) ==
  IF out = <<>> THEN <<>>
  ELSE (IF Head(out).msg = kind THEN <<Head(out).arg>> ELSE <<>>) \o LinesOf(Tail(out), kind)

\* A feed entry that is no settings entry and has a published and an html
\* content element.
IsAccepted(e) ==
  /\ ~(e.kind # Absent /\ Contains(e.kind, <<"s","e","t","t","i","n","g","s">>))
  /\ e.published # Absent
  /\ e.content # Absent

RECURSIVE Filter(_, _)
Filter(s, keep) ==
  IF s = <<>> THEN <<>>
  ELSE (IF Head(s) \in keep THEN <<Head(s)>> ELSE <<>>) \o Filter(Tail(s), keep)

\* The accepted entries among those the loop has finished with.
AcceptedVisited == Filter(SubSeq(entries, 1, Visited), {e \in EntryValues : IsAccepted(e)})

\* {draft-}{date}-{clean_filename(title)}.md
ExpectedFeedName(e) ==
  (IF e.draft = <<"y","e","s">> THEN <<"d","r","a","f","t","-">> ELSE <<>>)
  \o Fmt(format_date(e.published)) \o <<"-">>
  \o clean_filename(IF e.title = Absent THEN <<"U","n","t","i","t","l","e","d">> ELSE e.title) \o <<".","m","d">>

(***************************************************************************)
(* C1.  A feed holding exactly the entry `Hello World`, published          *)
(* 2024-12-18T19:26:00.000-08:00 with content <p>Hi <b>there</b></p>,      *)
(* leaves exactly one written file, 2024-12-18-hello-world.md, whose text  *)
(* has the heading line `# Hello World`, the date line                     *)
(* `**Date:** 2024-12-18` and the body `Hi **there**`; and the name of     *)
(* every file a feed run writes is {draft-}{date}-{clean_filename(title)}  *)
(* .md for the entry it was written for.                                   *)
(***************************************************************************)
C1_FeedEndToEnd ==
  /\ (prog = "feed" /\ pc = "done" /\ entries = <<BaseEntry>> /\ blocked = {}) =>
       /\ DOMAIN files = {HelloFile}
       /\ LinesOf(stdout, "Created") = <<HelloFile>>
       /\ StartsAt(files[HelloFile], 1, <<"#"," ","H","e","l","l","o"," ","W","o","r","l","d","\n">>)
       /\ Contains(files[HelloFile], <<"\n","*","*","D","a","t","e",":","*","*"," ","2","0","2","4","-","1","2","-","1","8","\n">>)
       /\ Contains(files[HelloFile], <<"\n","H","i"," ","*","*","t","h","e","r","e","*","*","\n">>)
  /\ prog = "feed" =>
       /\ Len(LinesOf(stdout, "Created")) = Len(AcceptedVisited)
       /\ \A k \in 1..Len(AcceptedVisited) :
            LinesOf(stdout, "Created")[k] = ExpectedFeedName(AcceptedVisited[k])

C1_Witness ==
  /\ prog = "feed" /\ pc = "done" /\ entries = <<BaseEntry>> /\ blocked = {}
  /\ existing = EmptyDir
  /\ HelloFile \in DOMAIN files

(***************************************************************************)
(* C2.  As claimed: for every document built from p, strong and em         *)
(* elements and plain text, the result of html_to_markdown holds no        *)
(* residual tag, and the text of every strong element appears in it        *)
(* between two pairs of asterisks.  (Stated for the strong elements whose  *)
(* content is plain text, where "the substring inside" has one reading.)   *)
(***************************************************************************)
StrongOpen == <<"<","s","t","r","o","n","g",">">>

StrongClose == <<"<","/","s","t","r","o","n","g",">">>

\* A tag in the sense of the pattern <[^>]+> occurs in s.
HasTag(s) ==
  \E i, j \in 1..Len(s) :
    /\ i + 1 < j /\ s[i] = "<" /\ s[j] = ">"
    /\ \A k \in (i + 1)..(j - 1) : s[k] # ">"

\* A strong element with plain-text content opens at index i.
PlainStrongAt(s, i) ==
  /\ StartsAt(s, i, StrongOpen)
  /\ StartsAt(s, Find(s, i + Len(StrongOpen), <<"<">>), StrongClose)

StrongText(s, i) == Slice(s, i + Len(StrongOpen), Find(s, i + Len(StrongOpen), <<"<">>) - 1)

\* The number of strong elements open at index i.
StrongDepth(s, i) ==
  Cardinality({k \in 1..(i - 1) : StartsAt(s, k, StrongOpen)})
  - Cardinality({k \in 1..(i - 1) : StartsAt(s, k, StrongClose)})

\* Three newlines with only white space between them.
HasBlankRun(s) ==
  \E i \in 1..Len(s) :
    /\ s[i] = "\n"
    /\ \E j \in (i + 1)..Len(s), k \in (i + 2)..Len(s) :
         /\ j < k /\ s[j] = "\n" /\ s[k] = "\n"
         /\ \A m \in (i + 1)..(k - 1) : IsSpace(s[m])

Bold(x) == <<"*", "*">> \o x \o <<"*", "*">>

Converted == prog = "md" /\ pc = "done"

C2_EveryStrongWrapped ==
  Converted =>
    /\ ~HasTag(markdown)
    /\ \A i \in 1..Len(html_content) :
         PlainStrongAt(html_content, i)
           => Contains(markdown, Bold(StrongText(html_content, i)))

(***************************************************************************)
(* C2 as amended.  The result holds no residual tag, and the text of every *)
(* strong element that has plain-text content without a run of blank lines *)
(* and is not inside another strong element appears in the result between  *)
(* two pairs of asterisks.  (A strong element inside another one shares    *)
(* the closing tag with the outer one, and three newlines in a row become  *)
(* two.)                                                                   *)
(***************************************************************************)
C2_OuterStrongWrapped ==
  Converted =>
    /\ ~HasTag(markdown)
    /\ \A i \in 1..Len(html_content) :
         (/\ PlainStrongAt(html_content, i)
          /\ StrongDepth(html_content, i) = 0
          /\ ~HasBlankRun(StrongText(html_content, i)))
           => Contains(markdown, Bold(StrongText(html_content, i)))

\* A call has wrapped the text of a strong element of a document that starts
\* with another tag.
C2_Witness ==
  /\ Converted
  /\ \E i \in 2..Len(html_content) :
       /\ PlainStrongAt(html_content, i)
       /\ StrongDepth(html_content, i) = 0
       /\ StrongText(html_content, i) = <<"a">>
       /\ html_content[1] = "<"
       /\ Contains(markdown, Bold(<<"a">>))

(***************************************************************************)
(* C3.  As claimed: the summary of a run reports a processed, a skipped    *)
(* and a failed count, and the three sum to the number of records.         *)
(* The feed summary is the one line "Processed N blog entries." and the    *)
(* page converter prints no count after its loop.                          *)
(***************************************************************************)
\* The numbers a summary line of the kind reports.
Reported(kind) == {Number(a, 1, Len(a)) : a \in {LinesOf(stdout, kind)[k] : k \in 1..Len(LinesOf(stdout, kind))}}

FeedTextOf(e) ==
  FeedText(TitleOf(e), format_date(e.published), IsDraft(e),
           html_to_markdown(IF e.content = None THEN <<>> ELSE e.content))

PageTextOf(f) == convert_image_paths(f.md)

PageNameOf(f) == extract_date_from_html(f.html) \o <<" ","-"," ">> \o f.name \o <<".","m","d">>

\* The greatest element of a non-empty set of numbers.
Last(ks) == CHOOSE k \in ks : \A j \in ks : j <= k

(***************************************************************************)
(* C4.  As claimed: a file present in the output folder, from before the   *)
(* run or written earlier in it, is never overwritten: no step changes     *)
(* the text of a file that exists (the first writer wins).                 *)
(***************************************************************************)
C4_FirstWriterWins == [][\A n \in DOMAIN files : files'[n] = files[n]]_vars

(***************************************************************************)
(* C4 as amended.  The last writer wins: a step that prints                *)
(* "Created: name" or "Converted: ... -> name" leaves under that name the  *)
(* text of the record it handled, whether or not a file of that name was   *)
(* there before (from before the run or from an earlier record), and       *)
(* changes no other file; no other step changes the output folder.         *)
(***************************************************************************)
C4_LastWriterWins ==
  [][IF stdout' # stdout /\ stdout'[Len(stdout')].msg \in {"Created", "Converted"}
     THEN LET name == stdout'[Len(stdout')].arg
              text == IF prog = "feed" THEN FeedTextOf(entries[idx])
                      ELSE PageTextOf(html_files[idx])
          IN /\ DOMAIN files' = DOMAIN files \cup {name}
             /\ files'[name] = text
             /\ \A n \in DOMAIN files \ {name} : files'[n] = files[n]
     ELSE files' = files]_vars

\* A file from before the run has been replaced by a record's text.
C4_Witness ==
  \E n \in DOMAIN existing :
    /\ files[n] # existing[n]
    /\ \E k \in 1..Len(stdout) : stdout[k] \in {Msg("Created", n), Msg("Converted", n)}

(***************************************************************************)
(* C5.  There is no collision detection: every accepted record is written  *)
(* and counted, also when an earlier record of the run had the same file   *)
(* name, no error or warning is printed for it, and the file holds the     *)
(* text of the last record written under its name.                         *)
(***************************************************************************)
C5_LaterRecordOverwrites ==
  /\ prog = "feed" =>
       /\ entries_processed = Len(AcceptedVisited)
       /\ \A n \in {ExpectedFeedName(AcceptedVisited[k]) : k \in 1..Len(AcceptedVisited)} :
            /\ n \in DOMAIN files
            /\ files[n] = FeedTextOf(AcceptedVisited[
                 Last({k \in 1..Len(AcceptedVisited) : ExpectedFeedName(AcceptedVisited[k]) = n})])
       /\ (pc = "done" /\ exit_code = 0) => stderr = <<>>
  /\ prog = "page" =>
       \A n \in {LinesOf(stdout, "Converted")[k] : k \in 1..Len(LinesOf(stdout, "Converted"))} :
         /\ n \in DOMAIN files
         /\ files[n] = PageTextOf(html_files[
              Last({k \in 1..Visited : html_files[k].readable
                                       /\ extract_date_from_html(html_files[k].html) # None
                                       /\ PageNameOf(html_files[k]) = n})])

\* Two entries of one feed with the same file name and different texts, both
\* written and counted; the file holds the text of the second.
C5_Witness ==
  /\ prog = "feed" /\ pc = "done" /\ exit_code = 0
  /\ Len(entries) = 2 /\ entries_processed = 2
  /\ ExpectedFeedName(entries[1]) = ExpectedFeedName(entries[2])
  /\ FeedTextOf(entries[1]) # FeedTextOf(entries[2])
  /\ files[ExpectedFeedName(entries[2])] = FeedTextOf(entries[2])

(***************************************************************************)
(* C6.  As claimed: a feed entry whose published date is absent or cannot  *)
(* be parsed is skipped: the step that handles it writes no file.          *)
(***************************************************************************)
\* The published text is no ISO date (or there is no text).
Unparseable(p) ==
  p = None \/ ~IsIsoFormat(ReplaceChar(p, "Z", <<"+","0","0",":","0","0">>))

AtFeedEntry == prog = "feed" /\ pc = "loop" /\ idx <= Len(entries)

NoRecognizableDate(s) ==
  ~\E i \in 1..Len(s) :
     /\ DateMatchAt(s, i).ok
     /\ \E k \in 1..12 : month_names[k] = Lower(DateMatchAt(s, i).month_name)

AtPageFile == prog = "page" /\ pc = "loop" /\ idx <= Len(html_files)

C7_DateMissWarnsAndContinues ==
  [][(AtPageFile /\ html_files[idx].readable /\ NoRecognizableDate(html_files[idx].html))
       => /\ files' = files
          /\ stdout' = Append(stdout, Msg("Warning: Could not extract date",
                                          html_files[idx].name \o <<".","h","t","m","l">>))
          /\ stderr' = stderr
          /\ pc' = "loop" /\ idx' = idx + 1]_vars

\* A file without a date was warned about, and a later file was converted.
C7_Witness ==
  /\ prog = "page" /\ Visited = 2
  /\ html_files[1].readable /\ NoRecognizableDate(html_files[1].html)
  /\ stdout[2] = Msg("Warning: Could not extract date", html_files[1].name \o <<".","h","t","m","l">>)
  /\ stdout[3].msg = "Converted"

(***************************************************************************)
(* C8.  A record that fails (a conversion step or the write raises) is     *)
(* logged and skipped and the records after it are still processed: a run  *)
(* whose input could be read ends normally, having visited every record.   *)
(***************************************************************************)
C8_RecordFailureDoesNotAbort ==
  (pc = "done" /\ source = "ok") => (exit_code = 0 /\ Visited = Len(Records))

(***************************************************************************)
(* C9.  A missing, unreadable or malformed input is fatal: the run ends    *)
(* with nothing converted, a message on standard error and a non-zero      *)
(* exit status.                                                            *)
(***************************************************************************)
C9_FatalInputError ==
  (pc = "done" /\ source # "ok") =>
    (files = existing /\ stderr # <<>> /\ exit_code # 0)

(***************************************************************************)
(* C10.  As claimed: an empty input collection prints a "nothing found"    *)
(* message, writes no file and exits successfully.                         *)
(***************************************************************************)
C10_NothingFoundMessage ==
  (pc = "done" /\ source = "ok" /\ Records = <<>>) =>
    /\ \E k \in 1..Len(stdout) : stdout[k].msg = "No HTML files found"
    /\ files = existing
    /\ exit_code = 0

(***************************************************************************)
(* C10 as amended.  An empty input collection writes no file and exits     *)
(* successfully; the page converter prints `No HTML files found in ...`    *)
(* and nothing else, the feed converter prints no such message: after its  *)
(* two opening lines comes the ordinary summary `Processed 0 blog          *)
(* entries.`                                                               *)
(***************************************************************************)
C10_EmptyInput ==
  (pc = "done" /\ source = "ok" /\ Records = <<>>) =>
    /\ files = existing
    /\ exit_code = 0
    /\ stderr = <<>>
    /\ prog = "page" => stdout = <<Msg("No HTML files found", InputPath)>>
    /\ prog = "feed" => stdout = <<Msg("Converting", InputPath), Msg("Output directory", <<>>),
                                   Msg("Processed blog entries", <<"0">>)>>

C10_Witness ==
  /\ prog = "page" /\ pc = "done" /\ source = "ok" /\ html_files = <<>>
  /\ stdout # <<>>

(***************************************************************************)
(* C11.  Draft handling of the feed converter.  An accepted entry marked   *)
(* draft is handled, not passed over; when it is written, its file name is *)
(* the name the same entry would get without the mark, with draft- in      *)
(* front, and the text holds the line `**Status:** Draft`.  An entry not   *)
(* marked draft (no app:draft element, or one that does not say yes) gets  *)
(* the name without the prefix and no status line.                         *)
(***************************************************************************)
Unmarked(e) == [e EXCEPT !.draft = Absent]

C11_DraftFlagged ==
  [][(AtFeedEntry /\ IsAccepted(entries[idx])) =>
       LET e == entries[idx]
           plain == ExpectedFeedName(Unmarked(e))
           name == IF e.draft = <<"y","e","s">> THEN <<"d","r","a","f","t","-">> \o plain ELSE plain
       IN /\ e.draft = <<"y","e","s">> => (stdout' # stdout \/ stderr' # stderr)
          /\ stdout' # stdout =>
               /\ stdout' = Append(stdout, Msg("Created", name))
               /\ name \in DOMAIN files'
               /\ Contains(files'[name], <<"\n","*","*","S","t","a","t","u","s",":","*","*"," ","D","r","a","f","t","\n">>) <=> e.draft = <<"y","e","s">>
               /\ Contains(files'[name], <<"*","*","S","t","a","t","u","s",":","*","*">>) <=> e.draft = <<"y","e","s">>]_vars

\* A draft was written as draft-2024-12-18-hello-world.md with the status line.
C11_Witness ==
  /\ prog = "feed"
  /\ \E k \in 1..Visited : entries[k].draft = <<"y","e","s">> /\ IsAccepted(entries[k])
  /\ <<"d","r","a","f","t","-","2","0","2","4","-","1","2","-","1","8","-","h","e","l","l","o","-","w","o","r","l","d",".","m","d">> \in DOMAIN files
  /\ Contains(files[<<"d","r","a","f","t","-","2","0","2","4","-","1","2","-","1","8","-","h","e","l","l","o","-","w","o","r","l","d",".","m","d">>], <<"\n","*","*","S","t","a","t","u","s",":","*","*"," ","D","r","a","f","t","\n">>)

(***************************************************************************)
(* C12.  As claimed: for every title the result of clean_filename holds    *)
(* only characters of [a-z0-9_-], no two hyphens in a row and no hyphen at *)
(* either end, and My "Crazy" Title!!! gives my-crazy-title.               *)
(***************************************************************************)
AsciiSafe ==
  {"a","b","c","d","e","f","g","h","i","j","k","l","m","n","o","p","q","r","s","t",
   "u","v","w","x","y","z","0","1","2","3","4","5","6","7","8","9","_","-"}

\* Lowercase letters outside ASCII that a title of the model can give.
OtherLetters == {"é"}

Cleaned == prog = "fn" /\ pc = "done"

HyphensTidy(s) ==
  /\ \A k \in 1..(Len(s) - 1) : ~(s[k] = "-" /\ s[k + 1] = "-")
  /\ s # <<>> => (s[1] # "-" /\ s[Len(s)] # "-")

C12_OnlyAsciiSafe ==
  Cleaned =>
    /\ \A k \in 1..Len(result) : result[k] \in AsciiSafe
    /\ HyphensTidy(result)
    /\ argument = CrazyTitle => result = <<"m","y","-","c","r","a","z","y","-","t","i","t","l","e">>

(***************************************************************************)
(* C12 as amended.  The word characters that clean_filename keeps are      *)
(* those of the Unicode class \w: letters and digits of any script and the *)
(* underscore.  The result holds only lowercased word characters and       *)
(* hyphens (only characters of [a-z0-9_-] when the title is ASCII), no two *)
(* hyphens in a row and no hyphen at either end; My "Crazy" Title!!! gives *)
(* my-crazy-title.                                                         *)
(***************************************************************************)
C12_LowercaseWordsAndHyphens ==
  Cleaned =>
    /\ \A k \in 1..Len(result) : result[k] \in AsciiSafe \cup OtherLetters
    /\ (\A k \in 1..Len(argument) : argument[k] # "É")
         => \A k \in 1..Len(result) : result[k] \in AsciiSafe
    /\ HyphensTidy(result)
    /\ argument = CrazyTitle => result = <<"m","y","-","c","r","a","z","y","-","t","i","t","l","e">>

\* A title with a letter outside ASCII, a space, a punctuation mark and a
\* capital has been cleaned.
C12_Witness ==
  Cleaned /\ argument = <<"É"," ","!","A">> /\ result = <<"é","-","a">>

(***************************************************************************)
(* C13.  Every name in the output folder holds only filesystem-safe        *)
(* characters: letters, digits, underscore, hyphen, dot and space (the     *)
(* characters of the two naming conventions), and none of the characters   *)
(* / \ : * ? " < > | that file systems reserve.                            *)
(***************************************************************************)
SafeChars ==
  AsciiSafe \cup OtherLetters \cup {".", " ", "É"}
  \cup {"A","B","C","D","E","F","G","H","I","J","K","L","M","N","O","P","Q","R","S","T",
        "U","V","W","X","Y","Z"}

C13_SafeNames ==
  \A n \in DOMAIN files : \A k \in 1..Len(n) : n[k] \in SafeChars

(***************************************************************************)
(* One call of html_to_markdown on a text with one image tag: a src        *)
(* attribute, an alt attribute or none, before or after the src, and the   *)
(* three ways to close the tag.                                            *)
(***************************************************************************)
ImgSrcs == {<<"x",".","p","n","g">>, <<"a","/","b",".","g","i","f">>}

\* Absent: the tag has no alt attribute.
ImgAlts == {Absent, <<>>, <<"A">>, <<"m","y"," ","c","a","t">>}

ImgCloses == {<<">">>, <<" ","/",">">>, <<"/",">">>}

ImgTexts == {<<>>, <<"t"," ">>, <<" ","u">>}

SrcAttr(src) == <<" ","s","r","c","=","\"">> \o src \o <<"\"">>

AltAttr(alt) == IF alt = Absent THEN <<>> ELSE <<" ","a","l","t","=","\"">> \o alt \o <<"\"">>

ImgTag(src, alt, alt_first, close) ==
  <<"<","i","m","g">> \o (IF alt_first THEN AltAttr(alt) \o SrcAttr(src) ELSE SrcAttr(src) \o AltAttr(alt))
  \o close

ImgDocs ==
  {before \o ImgTag(src, alt, alt_first, close) \o after :
     before \in ImgTexts, after \in ImgTexts, src \in ImgSrcs, alt \in ImgAlts,
     alt_first \in BOOLEAN, close \in ImgCloses}

InitImg ==
  /\ prog = "md"
  /\ html_content \in ImgDocs
  /\ markdown = <<>>
  /\ argument = <<>> /\ result = <<>>
  /\ InitCall

SpecImg == InitImg /\ [][NextMd]_vars

(***************************************************************************)
(* C14.  html_to_markdown rewrites an image tag with source S and alt text *)
(* A to ![A](S), and a tag without alt attribute to ![](S); the text       *)
(* around the tag stays.                                                   *)
(***************************************************************************)
ImgMarkdown(src, alt) ==
  <<"!","[">> \o (IF alt = Absent THEN <<>> ELSE alt) \o <<"]","(">> \o src \o <<")">>

C14_AltKept ==
  Converted =>
    \A before \in ImgTexts, after \in ImgTexts, src \in ImgSrcs, alt \in ImgAlts,
       alt_first \in BOOLEAN, close \in ImgCloses :
      html_content = before \o ImgTag(src, alt, alt_first, close) \o after
        => markdown = Strip(before \o ImgMarkdown(src, alt) \o after)

(***************************************************************************)
(* One call of html_to_markdown on a text without elements: letters,       *)
(* digits, white space, the two angle brackets and character references.   *)
(***************************************************************************)
Pieces ==
  {<<"a">>, <<"1">>, <<" ">>, <<"\n">>, <<"<">>, <<">">>, <<"&","n","b","s","p",";">>, <<"&","a","m","p",";">>, <<"&","a","m","p",";","n","b","s","p",";">>}

RECURSIVE Concat(_)
Concat(ss) == IF ss = <<>> THEN <<>> ELSE Head(ss) \o Concat(Tail(ss))

InitText ==
  /\ prog = "md"
  /\ html_content \in {Concat(ps) : ps \in SeqsUpTo(Pieces, MaxPieces)}
  /\ markdown = <<>>
  /\ argument = <<>> /\ result = <<>>
  /\ InitCall

SpecText == InitText /\ [][NextMd]_vars

(***************************************************************************)
(* C15.  A non-breaking-space entity ends up as one ASCII space, decoded   *)
(* once: no U+00A0 comes out of a text that holds none, a&nbsp;a gives     *)
(* `a a`, and the escaped a&amp;nbsp;a gives the text a&nbsp;a, not a      *)
(* space.                                                                  *)
(***************************************************************************)
C15_NbspIsOneSpace ==
  Converted =>
    /\ \A k \in 1..Len(markdown) : markdown[k] # "NBSP"
    /\ html_content = <<"a","&","n","b","s","p",";","a">> => markdown = <<"a"," ","a">>
    /\ html_content = <<"a","&","a","m","p",";","n","b","s","p",";","a">> => markdown = <<"a","&","n","b","s","p",";","a">>

(***************************************************************************)
(* C16.  For a plain text without tags (no < that opens a tag: none        *)
(* followed by a letter or a slash) and, read in favour of the claim,      *)
(* without character references, the result of html_to_markdown is the     *)
(* text up to white space: the characters that are no white space are the  *)
(* same, in the same order.                                                *)
(***************************************************************************)
NoMarkup(s) ==
  /\ \A k \in 1..Len(s) : s[k] # "&"
  /\ \A k \in 1..(Len(s) - 1) :
       s[k] = "<" => ~(s[k + 1] = "/" \/ s[k + 1] = "!" \/ s[k + 1] = "?"
                       \/ \E j \in 1..26 : s[k + 1] = UpperCase[j] \/ s[k + 1] = LowerCase[j])

RECURSIVE NonSpace(_)
NonSpace(s) ==
  IF s = <<>> THEN <<>>
  ELSE (IF IsSpace(Head(s)) THEN <<>> ELSE <<Head(s)>>) \o NonSpace(Tail(s))

C16_PlainTextUnchanged ==
  (Converted /\ NoMarkup(html_content)) => NonSpace(markdown) = NonSpace(html_content)

(***************************************************************************)
(* One call of html_to_markdown on one or two blocks, each a list (ul or   *)
(* ol) of up to MaxItems items or a word of text.  An item is a word, a    *)
(* bold word inside another inline element, or a word with spaces around   *)
(* it; `text` is what the item says, bold written with asterisks (the bold *)
(* rule of line 55 runs before the list rules).                            *)
(***************************************************************************)
ItemPool ==
  {[html |-> <<"x">>, text |-> <<"x">>],
   [html |-> <<"<","u",">","<","b",">","y","<","/","b",">","<","/","u",">">>, text |-> <<"*","*","y","*","*">>],
   [html |-> <<" ","w"," ">>, text |-> <<"w">>]}

\* kind "text" has no items.
Blocks ==
  {[kind |-> k, items |-> its] : k \in {"ul", "ol"}, its \in SeqsUpTo(ItemPool, MaxItems)}
  \cup {[kind |-> "text", items |-> <<>>]}

BlockHtml(b) ==
  IF b.kind = "text" THEN <<"t">>
  ELSE LET tag == IF b.kind = "ul" THEN <<"u","l">> ELSE <<"o","l">>
       IN Element(tag, Concat([k \in 1..Len(b.items) |-> <<"<","l","i",">">> \o b.items[k].html \o <<"<","/","l","i",">">>]))

\* One block, or a block and a second one of at most one item.
ListDocs ==
  {<<b>> : b \in Blocks}
  \cup {<<b, c>> : b \in Blocks, c \in {d \in Blocks : Len(d.items) <= 1}}

ListHtml(bs) == Concat([k \in 1..Len(bs) |-> BlockHtml(bs[k])])

InitList ==
  /\ prog = "md"
  /\ html_content \in {ListHtml(bs) : bs \in ListDocs}
  /\ markdown = <<>>
  /\ argument = <<>> /\ result = <<>>
  /\ InitCall

SpecList == InitList /\ [][NextMd]_vars

(***************************************************************************)
(* C17.  List conversion.  An ol with n items gives the n lines `1. item`, *)
(* ..., `n. item` in source order, every list numbered from 1; a ul gives  *)
(* one line `- item` per item in source order; an item's line holds its    *)
(* text without the inner tags and without the spaces around it.  Each     *)
(* list is a block of lines between two newlines, and the whole result is  *)
(* stripped.                                                               *)
(***************************************************************************)
ItemLine(kind, k, item) ==
  (IF kind = "ul" THEN <<"-", " ">> ELSE <<(<<"1", "2", "3", "4">>)[k], ".", " ">>) \o item.text

BlockMarkdown(b) ==
  IF b.kind = "text" THEN <<"t">>
  ELSE <<"\n">> \o Concat([k \in 1..Len(b.items) |->
                            ItemLine(b.kind, k, b.items[k])
                            \o (IF k < Len(b.items) THEN <<"\n">> ELSE <<>>)])
       \o <<"\n">>

C17_ListLines ==
  Converted =>
    \A bs \in ListDocs :
      html_content = ListHtml(bs)
        => markdown = Strip(Concat([k \in 1..Len(bs) |-> BlockMarkdown(bs[k])]))

\* Two ordered lists in a row: the second one is numbered from 1 again.
C17_Witness ==
  Converted /\ html_content = <<"<","o","l",">","<","l","i",">","x","<","/","l","i",">","<","l","i",">","<","u",">","<","b",">","y","<","/","b",">","<","/","u",">","<","/","l","i",">","<","/","o","l",">","<","o","l",">","<","l","i",">"," ","w"," ","<","/","l","i",">","<","/","o","l",">">> /\ markdown = <<"1","."," ","x","\n","2","."," ","*","*","y","*","*","\n","\n","1","."," ","w">>

(***************************************************************************)
(* One call of convert_image_paths (tumblr converter, lines 39-77) on a    *)
(* Markdown text with one reference, an image ![alt](path) or a link       *)
(* [text](path), between two pieces of text.  A path is a directory part   *)
(* and a file name; `image` says whether the path ends in one of the seven *)
(* image extensions, whatever the case.                                    *)
(***************************************************************************)
PathPool ==
  {[dir |-> <<"a","/","b","/">>, file |-> <<"c",".","J","P","G">>, image |-> TRUE],
   [dir |-> <<>>, file |-> <<"x",".","p","n","g">>, image |-> TRUE],
   [dir |-> <<"h","t","t","p",":","/","/","h","/">>, file |-> <<"i",".","j","p","e","g">>, image |-> TRUE],
   [dir |-> <<>>, file |-> <<"f",".","s","v","g">>, image |-> TRUE],
   [dir |-> <<"x","/">>, file |-> <<"y",".","t","x","t">>, image |-> FALSE],
   [dir |-> <<>>, file |-> <<"p","a","g","e">>, image |-> FALSE],
   [dir |-> <<"a","/","b","/">>, file |-> <<"e",".","t","i","f","f">>, image |-> FALSE],
   [dir |-> <<>>, file |-> <<"p",".","p","n","g","?","1">>, image |-> FALSE]}

RefTexts == {<<>>, <<"a">>, <<"m","y"," ","c","a","t">>}

Around == {<<>>, <<"t"," ">>, <<" ","u">>}

Reference(is_image, text, p) ==
  (IF is_image THEN <<"!">> ELSE <<>>)
  \o <<"[">> \o text \o <<"]", "(">> \o p.dir \o p.file \o <<")">>

InitPaths ==
  /\ prog = "paths"
  /\ argument \in {before \o Reference(is_image, text, p) \o after :
                     before \in Around, after \in Around, is_image \in BOOLEAN,
                     text \in RefTexts, p \in PathPool}
  /\ result = <<>>
  /\ html_content = <<>> /\ markdown = <<>>
  /\ InitCall

\* result = convert_image_paths(argument)
CallConvertImagePaths ==
  /\ prog = "paths" /\ pc = "main"
  /\ result' = convert_image_paths(argument)
  /\ pc' = "done"
  /\ UNCHANGED <<inputs, tools, idx, files, stdout, stderr, exit_code, entries_processed, markdown>>

NextPaths == CallConvertImagePaths

SpecPaths == InitPaths /\ [][NextPaths]_vars

(***************************************************************************)
(* C18.  convert_image_paths rewrites an image reference ![alt](path) to   *)
(* exactly ![alt](tumblrmedia/<file name of path>), with one exclamation   *)
(* mark, whatever the directory and the extension of the path; the text    *)
(* around it stays.                                                        *)
(***************************************************************************)
Rewritten == prog = "paths" /\ pc = "done"

MediaReference(text, p) ==
  <<"!", "[">> \o text \o <<"]", "(">> \o <<"t","u","m","b","l","r","m","e","d","i","a","/">> \o p.file \o <<")">>

C18_ImageReferenceRewritten ==
  Rewritten =>
    \A before \in Around, after \in Around, text \in RefTexts, p \in PathPool :
      argument = before \o Reference(TRUE, text, p) \o after
        => result = before \o MediaReference(text, p) \o after

(***************************************************************************)
(* C19.  In convert_image_paths a link [text](target) whose target ends in *)
(* .jpg, .jpeg, .png, .gif, .bmp, .webp or .svg, in any case, becomes the  *)
(* image ![text](tumblrmedia/<file name of target>); a link with any other *)
(* ending comes out as it went in, and so does the text around it.         *)
(***************************************************************************)
C19_ImageLinkPromoted ==
  Rewritten =>
    \A before \in Around, after \in Around, text \in RefTexts, p \in PathPool :
      argument = before \o Reference(FALSE, text, p) \o after
        => result = IF p.image THEN before \o MediaReference(text, p) \o after
                    ELSE argument

\* A link to a picture with an upper-case extension was promoted.
C19_Witness ==
  Rewritten /\ argument = <<"[","a","]","(","a","/","b","/","c",".","J","P","G",")">> /\ result = <<"!","[","a","]","(","t","u","m","b","l","r","m","e","d","i","a","/","c",".","J","P","G",")">>

(***************************************************************************)
(* C20.  An accepted feed entry without title, the title element missing   *)
(* or there without text, is converted as `Untitled`: the step raises no   *)
(* error and writes the file {draft-}{date}-untitled.md, whose first line  *)
(* is `# Untitled`.                                                        *)
(***************************************************************************)
C20_UntitledFallback ==
  [][(AtFeedEntry /\ IsAccepted(entries[idx]) /\ entries[idx].title \in {Absent, None}) =>
       LET e == entries[idx]
           name == (IF e.draft = <<"y","e","s">> THEN <<"d","r","a","f","t","-">> ELSE <<>>)
                   \o Fmt(format_date(e.published)) \o <<"-","u","n","t","i","t","l","e","d",".","m","d">>
       IN /\ stderr' = stderr
          /\ stdout' = Append(stdout, Msg("Created", name))
          /\ name \in DOMAIN files'
          /\ StartsAt(files'[name], 1, <<"#"," ","U","n","t","i","t","l","e","d","\n">>)]_vars

C22_OneRecordAtATime ==
  [][/\ AtFeedEntry =>
          LET e == entries[idx]
          IN /\ idx' = idx + 1 \/ (pc' = "done" /\ idx' = idx)
             /\ files' = files
                \/ files' = WriteFile(files, ExpectedFeedName(e), FeedTextOf(e))
             /\ stdout' = stdout
                \/ stdout' = Append(stdout, Msg("Created", ExpectedFeedName(e)))
             /\ files' # files => stdout' # stdout
     /\ AtPageFile =>
          LET f == html_files[idx]
          IN /\ idx' = idx + 1
             /\ files' = files
                \/ files' = WriteFile(files, PageNameOf(f), PageTextOf(f))
             /\ stdout' \in {Append(stdout, Msg("Converted", PageNameOf(f))),
                             Append(stdout, Msg("Warning: Could not extract date", HtmlName(f))),
                             Append(stdout, Msg("Error processing", HtmlName(f)))}
             /\ files' # files => stdout'[Len(stdout')].msg = "Converted"]_vars

\* Two different entries were written one after the other, a draft first:
\* the second one's file shows nothing of the first.
C22_Witness ==
  /\ prog = "feed" /\ Visited = 2
  /\ entries[1].draft = <<"y","e","s">> /\ entries[2].draft # <<"y","e","s">>
  /\ LinesOf(stdout, "Created") = <<ExpectedFeedName(entries[1]), ExpectedFeedName(entries[2])>>
  /\ files[ExpectedFeedName(entries[2])] = FeedTextOf(entries[2])

(***************************************************************************)
(* One call of html_to_markdown taken statement by statement               *)
(* (blogger_converter.py, lines 30-77): idx counts the substitutions done, *)
(* markdown is the value of `content` after them.                          *)
(***************************************************************************)
StageDocs ==
  {<<>>, <<"&","l","t",";","b","&","g","t",";","x","&","l","t",";","/","b","&","g","t",";">>, <<"<","p",">","<","b",">","x","<","/","b",">"," ","<","i",">","y","<","/","i",">","<","/","p",">">>, <<"<","h","2",">","<","a"," ","h","r","e","f","=","\"","u","\"",">","t","<","/","a",">","<","/","h","2",">">>, <<"<","u","l",">","<","l","i",">","<","e","m",">","a","<","/","e","m",">","<","/","l","i",">","<","/","u","l",">">>, <<"<","o","l",">","<","l","i",">","a","<","/","l","i",">","<","/","o","l",">","<","b","r","/",">","b">>, <<"<","b","l","o","c","k","q","u","o","t","e",">","<","p",">","q","<","/","p",">","<","/","b","l","o","c","k","q","u","o","t","e",">">>, <<"<","p","r","e",">","<","c","o","d","e",">","c","<","/","c","o","d","e",">","<","/","p","r","e",">","<","c","o","d","e",">","d","<","/","c","o","d","e",">">>, <<"<","i","m","g"," ","s","r","c","=","\"","s",".","p","n","g","\""," ","a","l","t","=","\"","A","\"",">","<","s","p","a","n",">","z","<","/","s","p","a","n",">">>, <<"a","\n","\n","\n","\n","b","&","a","m","p",";","n","b","s","p",";","c">>, <<"<","s","t","r","o","n","g",">","s","<","/","s","t","r","o","n","g",">","&","n","b","s","p",";","t">>}

InitStages ==
  /\ prog = "stages"
  /\ html_content \in StageDocs
  /\ markdown = <<>>
  /\ argument = <<>> /\ result = <<>>
  /\ InitCall

\* lines 30-31: if not html_content: return ""
StageEmpty ==
  /\ prog = "stages" /\ pc = "main" /\ html_content = <<>>
  /\ markdown' = <<>>
  /\ pc' = "done"
  /\ UNCHANGED <<inputs, tools, idx, files, stdout, stderr, exit_code, entries_processed, result>>

\* one of the assignments to content of lines 34-75
StageStep ==
  /\ prog = "stages" /\ pc = "main" /\ html_content # <<>>
  /\ idx < Len(Rules)
  /\ markdown' = re_sub(Rules[idx + 1], IF idx = 0 THEN html_content ELSE markdown)
  /\ idx' = idx + 1
  /\ UNCHANGED <<inputs, tools, pc, files, stdout, stderr, exit_code, entries_processed, result>>

\* line 77: return content.strip()
StageTrim ==
  /\ prog = "stages" /\ pc = "main" /\ html_content # <<>>
  /\ idx = Len(Rules)
  /\ markdown' = Strip(markdown)
  /\ pc' = "done"
  /\ UNCHANGED <<inputs, tools, idx, files, stdout, stderr, exit_code, entries_processed, result>>

NextStages == StageEmpty \/ StageStep \/ StageTrim

SpecStages == InitStages /\ [][NextStages]_vars

(***************************************************************************)
(* C23.  html_to_markdown applies its stages in one fixed order, each to   *)
(* the output of the one before: 1 entity decoding, 2 images, 3 anchors,   *)
(* 4 headings, 5 paragraphs, 6 line breaks, 7 bold and italic, 8 lists,    *)
(* 9 blockquotes, 10 code, 11 removal of the remaining tags, 12 white      *)
(* space normalization, and then the trim.  The k-th substitution of a     *)
(* call is one of the stage that the order gives for k, applied to the     *)
(* result of the substitution before it (to the argument for k = 1); so    *)
(* the removal of tags comes after every structure rule and the decoding   *)
(* before every tag rule.  The trim comes last and gives the value that    *)
(* the call returns.                                                       *)
(***************************************************************************)
StageOf ==
  [charref |-> 1, img |-> 2, a |-> 3, h |-> 4, p |-> 5, br |-> 6, strong |-> 7, b |-> 7,
   em |-> 7, i |-> 7, ul |-> 8, ol |-> 8, blockquote |-> 9, precode |-> 10, code |-> 10,
   tag |-> 11, blank |-> 12, nbsp |-> 12]

\* The stage of the k-th substitution.
StageAt == <<1, 2, 3, 4, 5, 6, 7, 7, 7, 7, 8, 8, 9, 10, 10, 11, 12, 12>>

C23_FixedStageOrder ==
  [][(prog = "stages" /\ html_content # <<>>) =>
       /\ idx' = idx + 1 =>
            /\ idx < Len(StageAt)
            /\ \E r \in DOMAIN StageOf :
                 /\ StageOf[r] = StageAt[idx + 1]
                 /\ markdown' = re_sub(r, IF idx = 0 THEN html_content ELSE markdown)
       /\ pc' = "done" =>
            /\ idx = Len(StageAt)
            /\ markdown' = Strip(markdown)
            /\ markdown' = html_to_markdown(html_content)]_vars

\* The escaped bold element has come out bold: the decoding ran before the
\* bold rule, and the bold rule before the removal of tags.
C23_Witness ==
  /\ prog = "stages" /\ pc = "done"
  /\ html_content = <<"&","l","t",";","b","&","g","t",";","x","&","l","t",";","/","b","&","g","t",";">>
  /\ markdown = <<"*","*","x","*","*">>

(***************************************************************************)
(* One call of extract_date_from_html                                      *)
(* (tumblr_export_html_to_markdown_converter.py, lines 14-37) on a text    *)
(* made of a beginning, a month word, a day, a separator and a tail.       *)
(***************************************************************************)
DateBefore == {<<>>, <<"x">>, <<"P","o","s","t","e","d"," ">>, <<"F","o","o"," ","1","s","t",","," ","2","0","2","5"," ","1",":","0","0","a","m"," ">>}
DateMonths == {<<"J","a","n","u","a","r","y">>, <<"M","A","Y">>, <<"d","e","c","e","m","b","e","r">>, <<"S","m","a","r","c","h">>}
DateDays == {<<"1","5","t","h">>, <<"1","s","t">>, <<"2","n","d">>, <<"3","r","d">>, <<"7">>}
DateSeps == {<<","," ">>, <<" ">>}
DateTails == {<<"2","0","2","5"," ","7",":","3","7","a","m">>, <<"2","0","2","5"," ","1","2",":","0","5","P","M">>, <<"2","0","2","5">>}

DateDocs ==
  {b \o m \o <<" ">> \o d \o s \o t :
     b \in DateBefore, m \in DateMonths, d \in DateDays, s \in DateSeps, t \in DateTails}

InitDate ==
  /\ prog = "date"
  /\ argument \in DateDocs
  /\ result = <<>>
  /\ html_content = <<>> /\ markdown = <<>>
  /\ InitCall

\* result = extract_date_from_html(argument)
CallExtractDate ==
  /\ prog = "date" /\ pc = "main"
  /\ result' = extract_date_from_html(argument)
  /\ pc' = "done"
  /\ UNCHANGED <<inputs, tools, idx, files, stdout, stderr, exit_code, entries_processed, markdown>>

NextDate == CallExtractDate

SpecDate == InitDate /\ [][NextDate]_vars

(***************************************************************************)
(* C24.  extract_date_from_html returns a date YYYY.MM.DD, month and day   *)
(* with two digits, whenever its argument contains a date string, that is  *)
(* an English month name, a day with st, nd, rd or th, a year of four      *)
(* digits and a time h:mm with am or pm, in either case of letters; it     *)
(* returns None only when the argument contains no such string.            *)
(***************************************************************************)
EnglishMonths ==
  {<<"j","a","n","u","a","r","y">>, <<"f","e","b","r","u","a","r","y">>,
   <<"m","a","r","c","h">>, <<"a","p","r","i","l">>, <<"m","a","y">>,
   <<"j","u","n","e">>, <<"j","u","l","y">>, <<"a","u","g","u","s","t">>,
   <<"s","e","p","t","e","m","b","e","r">>, <<"o","c","t","o","b","e","r">>,
   <<"n","o","v","e","m","b","e","r">>, <<"d","e","c","e","m","b","e","r">>}

\* A date string starts at position i of s.
DateStringAt(s, i) ==
  \E m \in EnglishMonths :
    /\ i + Len(m) - 1 <= Len(s)
    /\ Lower(SubSeq(s, i, i + Len(m) - 1)) = m
    /\ DateMatchAt(s, i).ok
    /\ Lower(DateMatchAt(s, i).month_name) = m

ContainsDateString(s) == \E i \in 1..Len(s) : DateStringAt(s, i)

IsYearMonthDay(d) ==
  /\ Len(d) = 10
  /\ d[5] = "." /\ d[8] = "."
  /\ \A k \in {1, 2, 3, 4, 6, 7, 9, 10} : d[k] \in Digits

C25_NoTripleNewlineAndTrimmed ==
  (prog = "md" /\ pc = "done") =>
    /\ ~Contains(markdown, <<"\n", "\n", "\n">>)
    /\ markdown # <<>> => ~IsSpace(markdown[1]) /\ ~IsSpace(markdown[Len(markdown)])

\* Three newlines between two letters have become two.
C25_Witness ==
  /\ prog = "md" /\ pc = "done"
  /\ html_content = <<"a","\n","\n","\n","a">>
  /\ markdown = <<"a","\n","\n","a">>

(***************************************************************************)
(* html_to_markdown on one blockquote element with text around it          *)
(* (blogger_converter.py, line 64).                                        *)
(***************************************************************************)
QuoteBefore == {<<>>, <<"x">>}
QuoteAttrs == {<<>>, <<" ","c","l","a","s","s","=","\"","c","\"">>}
QuoteAfter == {<<>>, <<"y">>, <<"<","b",">","x","<","/","b",">">>, <<"<","i",">","z","<","/","i",">">>, <<"<","s","t","r","o","n","g",">","s","<","/","s","t","r","o","n","g",">">>}

\* What stands between the tags, and the text it means.
QuoteInners ==
  {[html |-> <<"q">>, text |-> <<"q">>],
   [html |-> <<"a","\n","b">>, text |-> <<"a","\n","b">>],
   [html |-> <<" ","a","\n","b"," ">>, text |-> <<"a","\n","b">>],
   [html |-> <<"<","p",">","a","<","/","p",">","<","p",">","b","<","/","p",">">>, text |-> <<"a","\n","\n","b">>],
   [html |-> <<"a","<","b","r",">","b">>, text |-> <<"a","\n","b">>],
   [html |-> <<"a","\n","\n","b">>, text |-> <<"a","\n","\n","b">>]}

QuoteHtml(before, attr, inner, after) ==
  before \o <<"<","b","l","o","c","k","q","u","o","t","e">> \o attr \o <<">">> \o inner.html \o <<"<","/","b","l","o","c","k","q","u","o","t","e",">">> \o after

InitQuote ==
  /\ prog = "md"
  /\ html_content \in {QuoteHtml(before, attr, inner, after) :
                         before \in QuoteBefore, attr \in QuoteAttrs,
                         inner \in QuoteInners, after \in QuoteAfter}
  /\ markdown = <<>>
  /\ argument = <<>> /\ result = <<>>
  /\ InitCall

SpecQuote == InitQuote /\ [][NextMd]_vars

(***************************************************************************)
(* C26.  For a blockquote element in the input of html_to_markdown the     *)
(* blockquote tags are removed, and every line of the trimmed inner text,  *)
(* the first one included, comes out with "> " in front of it.             *)
(***************************************************************************)
\* Every line of text with "> " in front.
QuotedLines(text) == <<">"," ">> \o ReplaceChar(text, "\n", <<"\n",">"," ">>)

C26_EveryQuoteLinePrefixed ==
  Converted =>
    /\ ~Contains(markdown, <<"<","b","l","o","c","k","q","u","o","t","e">>)
    /\ ~Contains(markdown, <<"<","/","b","l","o","c","k","q","u","o","t","e",">">>)
    /\ \A before \in QuoteBefore, attr \in QuoteAttrs, inner \in QuoteInners,
          after \in QuoteAfter :
         html_content = QuoteHtml(before, attr, inner, after) =>
           Contains(markdown, QuotedLines(inner.text))

(***************************************************************************)
(* C27.  In the feed converter an entry that is a settings entry (the term *)
(* of its kind category contains `settings`) or that has no html content   *)
(* element is skipped without effect: the step that handles it creates and *)
(* changes no file, prints nothing, leaves the count as it is and goes on  *)
(* to the next entry; and the entries after it are handled as if it were   *)
(* not there: the files, the count and the lines printed are at any time   *)
(* those of the accepted entries handled so far, taken in their order.     *)
(***************************************************************************)
IsSettingsOrWithoutContent(e) ==
  \/ e.kind # Absent /\ Contains(e.kind, <<"s","e","t","t","i","n","g","s">>)
  \/ e.content = Absent

\* The output folder after the files of the entries es were written into fs.
RECURSIVE WrittenFor(_, _)
WrittenFor(fs, es) ==
  IF es = <<>> THEN fs
  ELSE WrittenFor(WriteFile(fs, ExpectedFeedName(Head(es)), FeedTextOf(Head(es))), Tail(es))

C27_SkippedWithoutEffect ==
  /\ [][(AtFeedEntry /\ IsSettingsOrWithoutContent(entries[idx])) =>
          /\ idx' = idx + 1
          /\ UNCHANGED <<files, stdout, stderr, entries_processed, pc, exit_code>>]_vars
  /\ []((prog = "feed" /\ pc \in {"loop", "done"} /\ idx >= 1) =>
          /\ files = WrittenFor(existing, AcceptedVisited)
          /\ entries_processed = Len(AcceptedVisited)
          /\ LinesOf(stdout, "Created")
               = [k \in 1..Len(AcceptedVisited) |-> ExpectedFeedName(AcceptedVisited[k])])

\* A run over a skipped entry and an accepted one after it has ended with the
\* file of the second entry alone and the count 1.
C27_Witness ==
  /\ prog = "feed" /\ pc = "done" /\ exit_code = 0
  /\ Len(entries) = 2
  /\ IsSettingsOrWithoutContent(entries[1]) /\ IsAccepted(entries[2])
  /\ files = WriteFile(existing, ExpectedFeedName(entries[2]), FeedTextOf(entries[2]))
  /\ files # existing
  /\ entries_processed = 1

(***************************************************************************)
(* youtube_playlist_maker.py: one run of create_playlist_and_add_songs.    *)
(* source tells whether a playlist of the file's name is found or has to   *)
(* be created; every call of the service is taken as one step of the       *)
(* server, and an insert that raises has added nothing.                    *)
(***************************************************************************)
MaxLines == 3

V1 == <<"v","1">>
V2 == <<"v","2">>
Videos == {V1, V2}

\* The lines of the file: an empty one, two queries with the same first
\* result, a query with another result and a query without result.
LinePool == {<<"\n">>, <<"a","\n">>, <<"A","\n">>, <<"b","\n">>, <<"n","\n">>}

\* lines 105-115: the id of the first result, or None
search_video(query) ==
  IF query \in {<<"a">>, <<"A">>} THEN V1
  ELSE IF query = <<"b">> THEN V2
  ELSE None

Range(s) == {s[k] : k \in 1..Len(s)}

\* The set without the inserted video.
add_nothing(video_ids, video_id) == video_ids

\* line 184: existing_videos.add(video_id)
add(video_ids, video_id) == video_ids \cup {video_id}

\* The state of the converters in a run of another program.
NoConverter ==
  /\ entries = <<>> /\ html_files = <<>>
  /\ existing = EmptyDir /\ files = existing /\ blocked = {}
  /\ entries_processed = 0
  /\ html_content = <<>> /\ markdown = <<>>
  /\ argument = <<>> /\ result = <<>>

converter_state ==
  <<entries, html_files, existing, blocked, files, entries_processed, html_content,
    markdown, argument, result>>

InitPlaylist ==
  /\ prog = "playlist"
  /\ source \in {"found", "absent"}
  /\ lines \in SeqsUpTo(LinePool, MaxLines)
  /\ playlist \in (IF source = "found" THEN {<<>>, <<V1>>} ELSE {<<>>})
  /\ listing \in {"ok", "fails"}
  /\ existing_videos = {}
  /\ added_count = 0 /\ skipped_count = 0 /\ failed_count = 0
  /\ pc = "main" /\ idx = 0
  /\ stdout = <<>> /\ stderr = <<>>
  /\ exit_code = -1
  /\ NoOrganizer
  /\ NoConverter

\* lines 137-153: the playlist is found or created, its items are listed
\* (get_existing_videos_in_playlist returns the empty set when the listing
\* raises), the counters start at 0.
PlaylistMain ==
  /\ prog = "playlist" /\ pc = "main"
  /\ existing_videos' = (IF listing = "ok" THEN Range(playlist) ELSE {})
  /\ stdout' = stdout
       \o <<Msg(IF source = "found" THEN "Found existing playlist"
                ELSE "Created new playlist", <<>>)>>
       \o (IF listing = "ok" THEN <<>> ELSE <<Msg("Error getting existing videos", <<>>)>>)
       \o <<Msg("Found existing videos", IntToStr(Cardinality(existing_videos')))>>
  /\ added_count' = 0 /\ skipped_count' = 0 /\ failed_count' = 0
  /\ pc' = "loop" /\ idx' = 1
  /\ UNCHANGED <<prog, source, converter_state, organizer_state, lines, playlist, listing,
                 stderr, exit_code>>

\* One iteration of the loop of lines 156-187.  search_video is not inside a
\* try: when the search raises, the run ends with a traceback.
PlaylistLine ==
  /\ prog = "playlist" /\ pc = "loop" /\ idx <= Len(lines)
  /\ LET query == Strip(lines[idx])
         video_id == search_video(query)
         searching == Append(stdout, Msg("Searching for", query))
     IN IF query = <<>>
        THEN /\ idx' = idx + 1
             /\ UNCHANGED <<pc, stdout, stderr, exit_code, playlist, existing_videos,
                            added_count, skipped_count, failed_count>>
        ELSE
          \/ /\ stdout' = searching
             /\ stderr' = Append(stderr, Msg("Traceback", <<"H","t","t","p","E","r","r","o","r">>))
             /\ pc' = "done" /\ exit_code' = 1
             /\ UNCHANGED <<idx, playlist, existing_videos, added_count, skipped_count,
                            failed_count>>
          \/ /\ idx' = idx + 1
             /\ UNCHANGED <<pc, stderr, exit_code>>
             /\ IF video_id = None
                THEN /\ stdout' = Append(searching, Msg("No results found", query))
                     /\ failed_count' = failed_count + 1
                     /\ UNCHANGED <<playlist, existing_videos, added_count, skipped_count>>
                ELSE IF video_id \in existing_videos
                THEN /\ stdout' = Append(searching, Msg("Already in playlist, skipping", video_id))
                     /\ skipped_count' = skipped_count + 1
                     /\ UNCHANGED <<playlist, existing_videos, added_count, failed_count>>
                ELSE
                  \/ /\ playlist' = Append(playlist, video_id)
                     /\ stdout' = Append(searching, Msg("Added to playlist", video_id))
                     /\ added_count' = added_count + 1
                     /\ existing_videos' = add(existing_videos, video_id)
                     /\ UNCHANGED <<skipped_count, failed_count>>
                  \/ /\ stdout' = Append(searching, Msg("Error adding to playlist", video_id))
                     /\ failed_count' = failed_count + 1
                     /\ UNCHANGED <<playlist, existing_videos, added_count, skipped_count>>
  /\ UNCHANGED <<prog, source, converter_state, organizer_state, lines, listing>>

\* lines 189-194, and the return to the shell
PlaylistSummary ==
  /\ prog = "playlist" /\ pc = "loop" /\ idx > Len(lines)
  /\ stdout' = stdout \o <<Msg("Successfully added", IntToStr(added_count)),
                           Msg("Skipped (already in playlist)", IntToStr(skipped_count)),
                           Msg("Failed", IntToStr(failed_count))>>
  /\ pc' = "done" /\ exit_code' = 0
  /\ UNCHANGED <<prog, source, converter_state, organizer_state, playlist_state,
                 skipped_count, idx, stderr>>

NextPlaylist == PlaylistMain \/ PlaylistLine \/ PlaylistSummary

SpecPlaylist == InitPlaylist /\ [][NextPlaylist]_vars

(***************************************************************************)
(* C28.  In a run of create_playlist_and_add_songs in which the listing of *)
(* the playlist at the start succeeded, no video id is inserted into the   *)
(* playlist that was in it at the start of the run or was inserted earlier *)
(* in the run: a step of the loop inserts at most one video, and only one  *)
(* that the playlist does not hold; so the videos inserted by the run are  *)
(* different from each other and from those of the start, also when        *)
(* several lines of the file resolve to the same video.                    *)
(***************************************************************************)
\* The items the playlist had at the start and those the run has inserted.
AtStart == SubSeq(playlist, 1, Len(playlist) - added_count)

InsertedByRun == SubSeq(playlist, Len(playlist) - added_count + 1, Len(playlist))

C28_NoVideoInsertedTwice ==
  /\ [][(prog = "playlist" /\ pc = "loop" /\ listing = "ok") =>
          \/ playlist' = playlist
          \/ \E v \in Videos : playlist' = Append(playlist, v) /\ v \notin Range(playlist)]_vars
  /\ []((prog = "playlist" /\ pc \in {"loop", "done"} /\ listing = "ok") =>
          /\ added_count <= Len(playlist)
          /\ \A i, j \in 1..Len(InsertedByRun) :
               i # j => InsertedByRun[i] # InsertedByRun[j]
          /\ Range(InsertedByRun) \cap Range(AtStart) = {})

\* Two lines of the file resolved to the same video: it was inserted for the
\* first and skipped for the second.
C28_Witness ==
  /\ prog = "playlist" /\ pc = "done" /\ listing = "ok"
  /\ lines = <<<<"a","\n">>, <<"A","\n">>>>
  /\ playlist = <<V1>>
  /\ added_count = 1 /\ skipped_count = 1 /\ failed_count = 0

(***************************************************************************)
(* audiobook_organizer.py: one run of main.  dirs holds the directories    *)
(* below the script's directory as paths (sequences of names), plain_files *)
(* the names of regular files in the script's directory; source tells      *)
(* whether books.json can be loaded.                                       *)
(***************************************************************************)
MaxFolders == 3

\* The class [A-Z0-9] of line 15.
IdChars ==
  Digits \cup {"A","B","C","D","E","F","G","H","I","J","K","L","M","N","O","P","Q","R","S",
               "T","U","V","W","X","Y","Z"}

RECURSIVE IdEnd(_, _)
IdEnd(s, i) == IF i <= Len(s) /\ s[i] \in IdChars THEN IdEnd(s, i + 1) ELSE i - 1

\* \[([A-Z0-9]+)\] matches at i.
ProductIdAt(s, i) ==
  /\ s[i] = "["
  /\ IdEnd(s, i + 1) >= i + 1
  /\ IdEnd(s, i + 1) + 1 <= Len(s)
  /\ s[IdEnd(s, i + 1) + 1] = "]"

\* lines 13-16: group 1 of the first match, or None
extract_product_id(folder_name) ==
  IF \E i \in 1..Len(folder_name) : ProductIdAt(folder_name, i)
  THEN LET i == CHOOSE k \in 1..Len(folder_name) :
                  /\ ProductIdAt(folder_name, k)
                  /\ \A j \in 1..(k - 1) : ~ProductIdAt(folder_name, j)
       IN SubSeq(folder_name, i + 1, IdEnd(folder_name, i + 1))
  ELSE None

\* The content of books.json: a list of books.
books_data ==
  <<[AudibleProductId |-> <<"B","1">>, AuthorNames |-> <<" ","K","i","n","g">>],
    [AudibleProductId |-> <<"B","2">>, AuthorNames |-> <<"A",","," ","B">>],
    [AudibleProductId |-> <<"B","3">>, AuthorNames |-> <<>>]>>

\* None where a book is expected.
NoBook == [AudibleProductId |-> None, AuthorNames |-> None]

\* lines 32-44, for a list: the first book with the id, or None
find_book_by_id(books, product_id) ==
  IF \E k \in 1..Len(books) : books[k].AudibleProductId = product_id
  THEN books[CHOOSE k \in 1..Len(books) :
               /\ books[k].AudibleProductId = product_id
               /\ \A j \in 1..(k - 1) : books[j].AudibleProductId # product_id]
  ELSE NoBook

\* lines 47-56
get_author_folder_name(author_names) ==
  IF author_names = <<>> THEN <<"U","n","k","n","o","w","n">>
  ELSE IF \E k \in 1..Len(author_names) : author_names[k] = "," THEN <<"M","u","l","t","i","p","l","e">>
  ELSE Strip(author_names)

\* str.strip(chars)
RECURSIVE StripChars(_, _)
StripChars(s, chars) ==
  IF s = <<>> THEN s
  ELSE IF s[1] \in chars THEN StripChars(Tail(s), chars)
  ELSE IF s[Len(s)] \in chars THEN StripChars(SubSeq(s, 1, Len(s) - 1), chars)
  ELSE s

\* lines 59-65
sanitize_folder_name(name) ==
  StripChars([k \in 1..Len(name) |->
                IF name[k] \in {"<", ">", ":", "\"", "/", "\\", "|", "?", "*"} THEN "_"
                ELSE name[k]],
             {".", " "})

\* script_dir / a / b: joining the empty name gives the directory itself.
PathOf(author_folder_name, folder_name) ==
  IF author_folder_name = <<>> THEN <<folder_name>> ELSE <<author_folder_name, folder_name>>

\* The folders of one earlier run and of this one.
FolderPool == {<<"T"," ","[","B","1","]">>, <<"U"," ","[","B","2","]">>, <<"N"," ","[","B","3","]">>, <<"V"," ","[","B","9","]">>, <<"K","i","n","g">>}

TopLevel == {p[1] : p \in {q \in dirs : Len(q) = 1}}

InitOrganizer ==
  /\ prog = "organizer"
  /\ source \in {"missing", "malformed", "ok"}
  /\ \E top \in {s \in SUBSET FolderPool : Cardinality(s) <= MaxFolders} :
       \E nested \in SUBSET (IF <<"K","i","n","g">> \in top THEN {<<<<"K","i","n","g">>, <<"T"," ","[","B","1","]">>>>} ELSE {}) :
         dirs = {<<n>> : n \in top} \cup nested
  /\ plain_files \in {{}, {<<"U","n","k","n","o","w","n">>}}
  /\ folders = <<>>
  /\ moved_count = 0 /\ skipped_count = 0
  /\ pc = "main" /\ idx = 0
  /\ stdout = <<>> /\ stderr = <<>>
  /\ exit_code = -1
  /\ NoPlaylist
  /\ NoConverter

\* lines 69-87: books.json is loaded (main returns when that fails) and the
\* subdirectories are listed, in the order iterdir happens to give.
OrganizerMain ==
  /\ prog = "organizer" /\ pc = "main"
  /\ IF source # "ok"
     THEN /\ stdout' = Append(stdout, Msg(IF source = "missing" THEN "Error: not found"
                                          ELSE "Error: not valid JSON", <<>>))
          /\ pc' = "done" /\ exit_code' = 0
          /\ UNCHANGED <<folders, idx, moved_count, skipped_count>>
     ELSE /\ folders' \in {fs \in [1..Cardinality(TopLevel) -> TopLevel] :
                             \A i, j \in 1..Len(fs) : i # j => fs[i] # fs[j]}
          /\ stdout' = stdout \o <<Msg("Successfully loaded books.json", <<>>),
                                   Msg("Found folders to process", IntToStr(Len(folders')))>>
          /\ moved_count' = 0 /\ skipped_count' = 0
          /\ pc' = "loop" /\ idx' = 1
          /\ UNCHANGED exit_code
  /\ UNCHANGED <<prog, source, converter_state, playlist_state, dirs, plain_files, stderr>>

\* One iteration of the loop of lines 89-132.  mkdir(exist_ok=True) raises
\* FileExistsError when the name is that of a regular file, and nothing
\* catches it; shutil.move raises when the folder is moved into itself or
\* when the system refuses the move, and lines 130-132 catch that.
OrganizerFolder ==
  /\ prog = "organizer" /\ pc = "loop" /\ idx <= Len(folders)
  /\ LET folder_name == folders[idx]
         product_id == extract_product_id(folder_name)
         book == find_book_by_id(books_data, product_id)
         author_folder_name ==
           sanitize_folder_name(get_author_folder_name(book.AuthorNames))
         with_author == IF author_folder_name = <<>> THEN dirs
                        ELSE dirs \cup {<<author_folder_name>>}
         destination == PathOf(author_folder_name, folder_name)
         skip(why, ds) ==
           /\ stdout' = Append(stdout, Msg(why, folder_name))
           /\ skipped_count' = skipped_count + 1
           /\ dirs' = ds
           /\ idx' = idx + 1
           /\ UNCHANGED <<pc, stderr, exit_code, moved_count>>
     IN IF product_id = None THEN skip("Skipping - no product ID found", dirs)
        ELSE IF book = NoBook THEN skip("Skipping - not found in books.json", dirs)
        ELSE IF author_folder_name \in plain_files
        THEN /\ stderr' = Append(stderr, Msg("Traceback", <<"F","i","l","e","E","x","i","s","t","s","E","r","r","o","r">>))
             /\ pc' = "done" /\ exit_code' = 1
             /\ UNCHANGED <<stdout, idx, dirs, moved_count, skipped_count>>
        ELSE IF destination \in with_author
        THEN skip("Skipping - already exists", with_author)
        ELSE
          \/ /\ author_folder_name # folder_name
             /\ dirs' = {IF p[1] = folder_name THEN <<author_folder_name>> \o p ELSE p :
                           p \in with_author}
             /\ stdout' = Append(stdout, Msg("Moved", folder_name))
             /\ moved_count' = moved_count + 1
             /\ idx' = idx + 1
             /\ UNCHANGED <<pc, stderr, exit_code, skipped_count>>
          \/ skip("Error moving", with_author)
  /\ UNCHANGED <<prog, source, converter_state, playlist_state, folders, plain_files>>

\* lines 134-138, and the return to the shell
OrganizerSummary ==
  /\ prog = "organizer" /\ pc = "loop" /\ idx > Len(folders)
  /\ stdout' = stdout \o <<Msg("Moved", IntToStr(moved_count)),
                           Msg("Skipped", IntToStr(skipped_count))>>
  /\ pc' = "done" /\ exit_code' = 0
  /\ UNCHANGED <<prog, source, converter_state, playlist_state, organizer_state,
                 skipped_count, idx, stderr>>

NextOrganizer == OrganizerMain \/ OrganizerFolder \/ OrganizerSummary

SpecOrganizer == InitOrganizer /\ [][NextOrganizer]_vars

(***************************************************************************)
(* C29.  In the audiobook organizer every folder found at the start of the *)
(* run is counted exactly once, as moved or as skipped: a step of the loop *)
(* raises the sum of the two counters by one and goes on to the next       *)
(* folder, and when the run has ended the sum is the number of folders     *)
(* found.  A folder is moved only when its destination did not exist: the  *)
(* step that counts a move puts the folder at a path that was free and     *)
(* leaves every other directory where it was.                              *)
(***************************************************************************)
C29_EveryFolderCountedOnce ==
  /\ [][(prog = "organizer" /\ pc = "loop" /\ idx <= Len(folders)) =>
          LET name == folders[idx]
          IN /\ idx' = idx + 1
             /\ moved_count' + skipped_count' = moved_count + skipped_count + 1
             /\ moved_count' \in {moved_count, moved_count + 1}
             /\ moved_count' = moved_count + 1 =>
                  /\ <<name>> \notin dirs'
                  /\ \E d \in dirs' \ dirs : Len(d) = 2 /\ d[2] = name
                  /\ \A p \in dirs : p[1] # name => p \in dirs'
             /\ moved_count' = moved_count => dirs \subseteq dirs']_vars
  /\ []((prog = "organizer" /\ pc = "done" /\ source = "ok") =>
          moved_count + skipped_count = Len(folders))

=============================================================================
